---- MODULE Spec2Model ----
(***************************************************************************)
(* Card session layer of libsiae (scardhal.c, libsiaecard.c): the per-slot *)
(* handle table, the nested transaction counters, the PC/SC context, the   *)
(* APDU transport with its reset recovery, and READ BINARY chunking.       *)
(* The PC/SC resource manager and the card are the environment: every      *)
(* result they return is drawn nondeterministically.                       *)
(***************************************************************************)
EXTENDS Integers, Sequences, FiniteSets, TLC

\* ------------------------------------------------------------------ bounds
NumSlots == 2
MaxDepth == 2
MaxTx == 3
MaxTxSession == 2
MaxCtx == 2
NumCallers == 2
MaxChunks == 2
MaxAPDUs == 6
MaxObjects == 3
MaxFill == 2

Slots == 0 .. (NumSlots - 1)
Callers == 1 .. NumCallers

\* ------------------------------------------------------- program constants
C_OK == 0
C_CONTEXT_ERROR == 1
C_NOT_INITIALIZED == 2
C_ALREADY_INITIALIZED == 3
C_NO_CARD == 4
C_WRONG_LENGTH == 25218  \* 0x6282
C_GENERIC_ERROR == 65535  \* 0xFFFF
EXCHANGE_BUFFER == 128
APDU_SELECT == 10747904  \* 0x00A40000
APDU_READBINARY == 11534336  \* 0x00B00000
APDU_VERIFYPIN == 2097152  \* 0x00200000
APDU_READ_COUNTER == 3276801  \* 0x00320001
SW_OK == 36864  \* 0x9000
SW_WRONG_LENGTH == 25218  \* 0x6282

\* a NULL BYTE* passed for pLe
NoLe == -1

VARIABLES
  hContext,            \* scardhal.c: static SCARDCONTEXT hContext (0 = none)
  hCards,              \* scardhal.c: SCARDHANDLE hCards[MAX_READERS] (0 = empty)
  hCardsTransactions,  \* scardhal.c: int hCardsTransactions[MAX_READERS]
  initialized,         \* scardhal.c: static BOOL initialized
  instances,           \* scardhal.c: static int instances
  defSlot,             \* scardhal.c: int defSlot
  drvCtx,              \* resource manager: contexts established and not released
  drvConn,             \* resource manager: the slot's handle is a live connection
  drvLock,             \* resource manager: exclusive transaction held through the slot's handle
  bal,                 \* call history, per caller and slot: begins minus ends so far
  neg,                 \* call history, per caller and slot: an end came with no begin to match
  efSize,              \* the card: size in bytes of its selected elementary file
  files,               \* the file system: the names of the files that exist
  p7,                  \* the PKCS7SignML or SMIMESignML call under way: its position and locals
  asn,                 \* the ASN.1 objects constructed so far and the buffer of the last GetEncoded
  last                 \* the call under way or just returned, with what it did

vars == <<hContext, hCards, hCardsTransactions, initialized, instances, defSlot,
          drvCtx, drvConn, drvLock, bal, neg, efSize, files, p7, asn, last>>

prog == <<hContext, hCards, hCardsTransactions, initialized, instances, defSlot>>
drv == <<drvCtx, drvConn, drvLock>>
prog_but_depth == <<hContext, hCards, initialized, instances, defSlot>>
aside == <<bal, neg, efSize, files>>

\* no PKCS7SignML or SMIMESignML call under way
NoSigning == [pc |-> "none"]

\* no ASN.1 object constructed, nothing encoded
NoObjects == [heap |-> <<>>, root |-> 0, cb |-> 0, buf |-> <<>>, retval |-> TRUE]

NoCall ==
  [op |-> "none", t |-> 0, s |-> 0, rv |-> C_OK, pre |-> 0, log |-> <<>>,
   sent |-> <<>>, SW |-> 0, pLe |-> NoLe, out |-> <<>>, Len |-> 0, req |-> <<>>]

Call(op, t, s, rv, pre, log) ==
  [NoCall EXCEPT !.op = op, !.t = t, !.s = s, !.rv = rv, !.pre = pre, !.log = log]

\* one driver call as it appears in a call's log
Drv(f, h, ok, lock) == [f |-> f, h |-> h, ok |-> ok, lock |-> lock]

Init ==
  /\ hContext = 0
  /\ hCards = [s \in Slots |-> 0]
  /\ hCardsTransactions = [s \in Slots |-> 0]
  /\ initialized = FALSE
  /\ instances = 0
  /\ defSlot = -1
  /\ drvCtx = 0
  /\ drvConn = [s \in Slots |-> FALSE]
  /\ drvLock = [s \in Slots |-> FALSE]
  /\ bal = [t \in Callers |-> [s \in Slots |-> 0]]
  /\ neg = [t \in Callers |-> [s \in Slots |-> FALSE]]
  /\ efSize = 0
  /\ files = {}
  /\ p7 = NoSigning
  /\ asn = NoObjects
  /\ last = NoCall

\* ------------------------------------------------------------ transactions

\* BeginTransactionML with the depth test dropped: every begin asks the driver
\* for the lock.
BeginTransactionML_AlwaysLocks(t, nSlot) ==
  /\ hCardsTransactions[nSlot] < MaxDepth
  /\ \E ok \in BOOLEAN :
       /\ ok => drvConn[nSlot]
       /\ drvLock' = [drvLock EXCEPT ![nSlot] = @ \/ ok]
       /\ last' = Call("BeginTransactionML", t, nSlot, C_OK,
                       hCardsTransactions[nSlot],
                       <<Drv("SCardBeginTransaction", hCards[nSlot], ok, drvLock[nSlot])>>)
  /\ hCardsTransactions' = [hCardsTransactions EXCEPT ![nSlot] = @ + 1]
  /\ UNCHANGED <<prog_but_depth, drvCtx, drvConn>>

\* BeginTransactionML: the driver lock is requested only at depth 0, its
\* result is ignored, and the counter is incremented in every case.
BeginTransactionML(t, nSlot) ==
  /\ hCardsTransactions[nSlot] < MaxDepth
  /\ \E ok \in BOOLEAN :
       /\ ok => drvConn[nSlot]
       /\ IF hCardsTransactions[nSlot] = 0
            THEN /\ drvLock' = [drvLock EXCEPT ![nSlot] = @ \/ ok]
                 /\ last' = Call("BeginTransactionML", t, nSlot, C_OK,
                                 hCardsTransactions[nSlot],
                                 <<Drv("SCardBeginTransaction", hCards[nSlot], ok, drvLock[nSlot])>>)
            ELSE /\ ok = drvConn[nSlot]
                 /\ drvLock' = drvLock
                 /\ last' = Call("BeginTransactionML", t, nSlot, C_OK,
                                 hCardsTransactions[nSlot], <<>>)
  /\ hCardsTransactions' = [hCardsTransactions EXCEPT ![nSlot] = @ + 1]
  /\ UNCHANGED <<prog_but_depth, drvCtx, drvConn>>

\* EndTransactionML with the test for a counter above 0 dropped.
EndTransactionML_NoFloor(t, nSlot) ==
  /\ \E ok \in BOOLEAN :
       /\ ok => drvConn[nSlot]
       /\ IF hCardsTransactions[nSlot] = 1
            THEN /\ drvLock' = [drvLock EXCEPT ![nSlot] = @ /\ ~ok]
                 /\ last' = Call("EndTransactionML", t, nSlot, C_OK,
                                 hCardsTransactions[nSlot],
                                 <<Drv("SCardEndTransaction", hCards[nSlot], ok, drvLock[nSlot])>>)
            ELSE /\ ok = drvConn[nSlot]
                 /\ drvLock' = drvLock
                 /\ last' = Call("EndTransactionML", t, nSlot, C_OK,
                                 hCardsTransactions[nSlot], <<>>)
  /\ hCardsTransactions' = [hCardsTransactions EXCEPT ![nSlot] = @ - 1]
  /\ UNCHANGED <<prog_but_depth, drvCtx, drvConn>>

\* EndTransactionML: decrements only above 0; the driver lock is released
\* only when the counter reaches 0.
EndTransactionML(t, nSlot) ==
  /\ \E ok \in BOOLEAN :
       /\ ok => drvConn[nSlot]
       /\ IF hCardsTransactions[nSlot] = 1
            THEN /\ drvLock' = [drvLock EXCEPT ![nSlot] = @ /\ ~ok]
                 /\ last' = Call("EndTransactionML", t, nSlot, C_OK,
                                 hCardsTransactions[nSlot],
                                 <<Drv("SCardEndTransaction", hCards[nSlot], ok, drvLock[nSlot])>>)
            ELSE /\ ok = drvConn[nSlot]
                 /\ drvLock' = drvLock
                 /\ last' = Call("EndTransactionML", t, nSlot, C_OK,
                                 hCardsTransactions[nSlot], <<>>)
  /\ hCardsTransactions' =
       [hCardsTransactions EXCEPT ![nSlot] = IF @ > 0 THEN @ - 1 ELSE @]
  /\ UNCHANGED <<prog_but_depth, drvCtx, drvConn>>

\* ------------------------------------------------- Initialize / FinalizeML

\* Connect: 0 without a context; otherwise the handle SCardConnect gives, or
\* 0 when listing the readers or connecting fails (drawn by the caller).
Connect(ctx, nReader, connOk) ==
  IF ctx = 0 THEN 0 ELSE IF connOk THEN nReader + 1 ELSE 0

\* Initialize.  With instances = 0 it establishes a context and clears both
\* tables with memset(hCards, 0, sizeof(hCards) * sizeof(hCards[0])): the
\* length is the square of what was meant, so the call writes zeros past the
\* end of each array.  What lies there is the build's choice; of the
\* file-scope objects of scardhal.c only hContext (just set) and defSlot can
\* hold a non-zero value at that point, so the overrun is a choice of which
\* of the two it zeroes.
Initialize(t, nSlot) ==
  \E estOk \in BOOLEAN, connOk \in BOOLEAN, overCtx \in BOOLEAN, overDef \in BOOLEAN :
    LET first == instances = 0
        pre == hCardsTransactions[nSlot]
        ctx1 == IF first THEN (IF overCtx THEN 0 ELSE 1) ELSE hContext
        cards1 == IF first THEN [s \in Slots |-> 0] ELSE hCards
        trans1 == IF first THEN [s \in Slots |-> 0] ELSE hCardsTransactions
        def1 == IF first /\ overDef THEN 0 ELSE defSlot
        h == Connect(ctx1, nSlot, connOk)
        estLog == IF first THEN <<Drv("SCardEstablishContext", 0, estOk, FALSE)>> ELSE <<>>
    IN
    /\ first \/ (estOk /\ ~overCtx /\ ~overDef)
    /\ (first /\ estOk) => drvCtx < MaxCtx
    /\ IF first /\ ~estOk
         THEN /\ initialized' = FALSE
              /\ hContext' = 0
              /\ last' = Call("Initialize", t, nSlot, C_CONTEXT_ERROR, pre, estLog)
              /\ UNCHANGED <<hCards, hCardsTransactions, instances, defSlot, drv>>
         ELSE /\ hContext' = ctx1
              /\ drvCtx' = IF first THEN drvCtx + 1 ELSE drvCtx
              /\ hCardsTransactions' = trans1
              /\ IF cards1[nSlot] # 0
                   THEN /\ connOk
                        /\ last' = Call("Initialize", t, nSlot, C_ALREADY_INITIALIZED, pre, estLog)
                        /\ hCards' = cards1
                        /\ defSlot' = def1
                        /\ UNCHANGED <<instances, initialized, drvConn, drvLock>>
                   ELSE /\ hCards' = [cards1 EXCEPT ![nSlot] = h]
                        /\ IF h # 0
                             THEN /\ defSlot' = IF first THEN nSlot ELSE def1
                                  /\ instances' = instances + 1
                                  /\ initialized' = TRUE
                                  /\ drvConn' = [drvConn EXCEPT ![nSlot] = TRUE]
                                  /\ last' = Call("Initialize", t, nSlot, C_OK, pre,
                                        estLog \o <<Drv("SCardConnect", h, TRUE, FALSE)>>)
                                  /\ UNCHANGED drvLock
                             ELSE /\ defSlot' = def1
                                  /\ last' = Call("Initialize", t, nSlot, C_NO_CARD, pre,
                                        IF ctx1 = 0 THEN estLog
                                        ELSE estLog \o <<Drv("SCardConnect", 0, FALSE, FALSE)>>)
                                  /\ UNCHANGED <<instances, initialized, drvConn, drvLock>>

\* FinalizeML: disconnects and clears the slot's handle; the slot's
\* transaction counter is not touched (the SCardEndTransaction call is
\* commented out); the context is released with the last instance.
FinalizeML(t, nSlot) ==
  LET pre == hCardsTransactions[nSlot] IN
  IF hCards[nSlot] = 0
    THEN /\ last' = Call("FinalizeML", t, nSlot, C_NOT_INITIALIZED, pre, <<>>)
         /\ UNCHANGED <<prog, drv>>
    ELSE /\ hCards' = [hCards EXCEPT ![nSlot] = 0]
         /\ drvConn' = [drvConn EXCEPT ![nSlot] = FALSE]
         /\ drvLock' = [drvLock EXCEPT ![nSlot] = FALSE]
         /\ instances' = instances - 1
         /\ IF instances - 1 = 0
              THEN /\ drvCtx' = drvCtx - 1
                   /\ hContext' = 0
                   /\ initialized' = FALSE
                   /\ last' = Call("FinalizeML", t, nSlot, C_OK, pre,
                         <<Drv("SCardDisconnect", hCards[nSlot], TRUE, drvLock[nSlot]),
                           Drv("SCardReleaseContext", hContext, TRUE, FALSE)>>)
              ELSE /\ last' = Call("FinalizeML", t, nSlot, C_OK, pre,
                         <<Drv("SCardDisconnect", hCards[nSlot], TRUE, drvLock[nSlot])>>)
                   /\ UNCHANGED <<drvCtx, hContext, initialized>>
         /\ UNCHANGED <<hCardsTransactions, defSlot>>

\* ------------------------------------------------------------- SendAPDUML

Byte(x, k) == (x \div (256 ^ k)) % 256

Min(a, b) == IF a < b THEN a ELSE b

\* memcpy(dst, src, n) on buffers held as sequences
Memcpy(dst, src, n) ==
  [i \in 1 .. Len(dst) |-> IF i <= n THEN src[i] ELSE dst[i]]

\* The bytes SendAPDUML puts in pSendBuffer: the 4 header bytes of cmd, Lc and
\* the command data when Lc # 0, and an Le byte unless INS is A4 (SELECT).
SendBuffer(cmd, Lc, pLe, inBuffer) ==
  <<Byte(cmd, 3), Byte(cmd, 2), Byte(cmd, 1), Byte(cmd, 0)>>
    \o (IF Lc # 0 THEN <<Lc>> \o SubSeq(inBuffer, 1, Lc) ELSE <<>>)
    \o (IF Byte(cmd, 2) # 164 THEN <<IF pLe # NoLe THEN pLe ELSE 0>> ELSE <<>>)

\* What the resource manager answers to one SCardTransmit, and to the
\* SCardReconnect and SCardBeginTransaction that follow a reset
\* (SCardBeginTransaction is called only at depth > 0).
Attempt(tx, recon, begin) == [tx |-> tx, recon |-> recon, begin |-> begin]
Resets(depth) ==
  {Attempt("reset", r, b) : r \in BOOLEAN, b \in IF depth > 0 THEN BOOLEAN ELSE {TRUE}}
Retries(depth, a) == IF depth > 0 THEN a.begin ELSE a.recon
Retrying(depth) == {a \in Resets(depth) : Retries(depth, a)}
Ending(depth) ==
  {Attempt(x, TRUE, TRUE) : x \in {"ok", "nocard", "other"}}
    \cup {a \in Resets(depth) : ~Retries(depth, a)}
\* The driver's answers over one call: resets that are recovered from, then
\* an answer that ends the call, maxTx transmissions at most.
Scripts(depth, maxTx) ==
  UNION {{pre \o <<a>> : pre \in [1 .. k - 1 -> Retrying(depth)], a \in Ending(depth)} :
         k \in 1 .. maxTx}

\* Relock with the request for the lock left out.
Relock_Skipped(h, depth, a, st) == st

\* After SCardReconnect: with a transaction outstanding the driver lock is
\* requested again, and its result replaces that of the reconnect.
Relock(h, depth, a, st) ==
  IF depth > 0
    THEN [st EXCEPT !.log = Append(@, Drv("SCardBeginTransaction", h, a.begin, FALSE)),
                    !.lock = a.begin]
    ELSE st

\* The retryTransmit loop.  st carries the call's running state: rv ("retry"
\* while the loop is about to transmit again), the caller's *pLe, the driver
\* lock, the driver calls made and the buffers transmitted.
RECURSIVE RetryTransmit(_, _, _, _, _, _)
RetryTransmit(h, depth, buf, script, i, st) ==
  LET a == script[i]
      sent == [st EXCEPT !.log = Append(@, Drv("SCardTransmit", h, a.tx = "ok", st.lock)),
                         !.sent = Append(@, buf)]
      failed == [sent EXCEPT !.pLe = IF @ # NoLe THEN 0 ELSE @, !.lock = FALSE]
      recon == [failed EXCEPT !.log = Append(@, Drv("SCardReconnect", h, a.recon, FALSE))]
      relock == Relock(h, depth, a, recon)
      rvOk == Retries(depth, a)
  IN CASE a.tx = "ok" -> [sent EXCEPT !.rv = "ok"]
       [] a.tx = "reset" ->
            IF rvOk
              THEN IF i < Len(script)
                     THEN RetryTransmit(h, depth, buf, script, i + 1, relock)
                     ELSE [relock EXCEPT !.rv = "retry"]
              ELSE [relock EXCEPT !.rv = "nocard"]
       [] a.tx = "nocard" -> [failed EXCEPT !.rv = "nocard"]
       [] OTHER -> [failed EXCEPT !.rv = "other"]

\* SendAPDUML as a function of its arguments and of what the driver answers:
\* the value returned, *pSW, *pLe and outBuffer as the call leaves them, the
\* driver lock, the driver calls and the buffers transmitted.  resp is the
\* card's response (data and the two status bytes) to a transmit that succeeds.
SendAPDUML(h, depth, lock, cmd, Lc, pLe, inBuffer, outNull, outBuffer, SW, script, resp) ==
  LET buf == SendBuffer(cmd, Lc, pLe, inBuffer)
      st == RetryTransmit(h, depth, buf, script, 1,
              [rv |-> "retry", pLe |-> pLe, lock |-> lock, log |-> <<>>, sent |-> <<>>])
      tLen == Len(resp)
      n == IF st.pLe > tLen - 2 THEN tLen - 2 ELSE st.pLe
  IN CASE st.rv = "ok" ->
            [rv |-> C_OK,
             SW |-> resp[tLen - 1] * 256 + resp[tLen],
             pLe |-> IF tLen > 2 /\ st.pLe # NoLe /\ (st.pLe > tLen - 2 \/ outNull)
                       THEN (tLen - 2) % 256 ELSE st.pLe,
             out |-> IF tLen > 2 /\ ~outNull THEN Memcpy(outBuffer, resp, n) ELSE outBuffer,
             lock |-> st.lock, log |-> st.log, sent |-> st.sent, done |-> TRUE]
       [] st.rv = "nocard" ->
            [rv |-> C_NO_CARD, SW |-> SW, pLe |-> st.pLe, out |-> outBuffer,
             lock |-> st.lock, log |-> st.log, sent |-> st.sent, done |-> TRUE]
       [] st.rv = "other" ->
            [rv |-> C_GENERIC_ERROR, SW |-> SW, pLe |-> st.pLe, out |-> outBuffer,
             lock |-> st.lock, log |-> st.log, sent |-> st.sent, done |-> TRUE]
       [] OTHER ->
            [rv |-> C_GENERIC_ERROR, SW |-> SW, pLe |-> st.pLe, out |-> outBuffer,
             lock |-> st.lock, log |-> st.log, sent |-> st.sent, done |-> FALSE]

\* The driver refuses a handle that is no live connection (SCARD_E_INVALID_HANDLE,
\* which SendAPDUML maps to C_GENERIC_ERROR).
DriverAccepts(nSlot, script) ==
  drvConn[nSlot] \/ script[1].tx = "other"

\* The calls the library itself makes, as <<cmd, Lc, *pLe, inBuffer, outBuffer>>
\* (outBuffer <<>> for NULL): SELECT MF, READ COUNTER into a 4-byte buffer,
\* VERIFY with Lc = 0.
SelectMF == <<APDU_SELECT, 2, NoLe, <<63, 0>>, <<>> >>
ReadCounter == <<APDU_READ_COUNTER, 0, 4, <<>>, <<0, 0, 0, 0>> >>
VerifyLc0 == <<APDU_VERIFYPIN + 129, 0, NoLe, <<>>, <<>> >>
ApduCalls == {SelectMF, ReadCounter, VerifyLc0}

\* Card responses: status only, or data and status.
Responses == { <<144, 0>>, <<106, 130>>, <<0, 0, 0, 7, 144, 0>> }

\* SendAPDU clearing the slot's handle when the call ends with C_NO_CARD.
SendAPDU_DropsSlot(t, nSlot, calls, resps, maxTx) ==
  \E c \in calls, script \in Scripts(hCardsTransactions[nSlot], maxTx) :
  \E resp \in IF script[Len(script)].tx = "ok" THEN resps ELSE {<<144, 0>>} :
    LET r == SendAPDUML(hCards[nSlot], hCardsTransactions[nSlot], drvLock[nSlot],
                        c[1], c[2], c[3], c[4], c[5] = <<>>, c[5], 0, script, resp)
    IN /\ DriverAccepts(nSlot, script)
       /\ r.done
       /\ drvLock' = [drvLock EXCEPT ![nSlot] = r.lock]
       /\ last' = [Call("SendAPDUML", t, nSlot, r.rv, hCardsTransactions[nSlot], r.log)
                     EXCEPT !.sent = r.sent, !.SW = r.SW, !.pLe = r.pLe, !.out = r.out]
       /\ hCards' = [hCards EXCEPT ![nSlot] = IF r.rv = C_NO_CARD THEN 0 ELSE @]
       /\ UNCHANGED <<hContext, hCardsTransactions, initialized, instances, defSlot,
                      drvCtx, drvConn>>

\* A SendAPDUML call on a slot, one of calls, answered by one of resps, the
\* driver resetting the card maxTx - 1 times at most.
SendAPDU(t, nSlot, calls, resps, maxTx) ==
  \E c \in calls, script \in Scripts(hCardsTransactions[nSlot], maxTx) :
  \E resp \in IF script[Len(script)].tx = "ok" THEN resps ELSE {<<144, 0>>} :
    LET r == SendAPDUML(hCards[nSlot], hCardsTransactions[nSlot], drvLock[nSlot],
                        c[1], c[2], c[3], c[4], c[5] = <<>>, c[5], 0, script, resp)
    IN /\ DriverAccepts(nSlot, script)
       /\ r.done
       /\ drvLock' = [drvLock EXCEPT ![nSlot] = r.lock]
       /\ last' = [Call("SendAPDUML", t, nSlot, r.rv, hCardsTransactions[nSlot], r.log)
                     EXCEPT !.sent = r.sent, !.SW = r.SW, !.pLe = r.pLe, !.out = r.out]
       /\ UNCHANGED <<prog, drvCtx, drvConn>>

\* One SendAPDUML call on its own: the request is held in last until the call
\* returns.  req keeps what the caller passed and what the driver and the
\* card will answer.
SendRequest(t, nSlot, cmd, Lc, pLe, inBuffer, outNull, outBuffer, script, resp) ==
  [Call("SendAPDUML call", t, nSlot, C_OK, 0, <<>>) EXCEPT
     !.pLe = pLe, !.out = outBuffer,
     !.req = [cmd |-> cmd, Lc |-> Lc, pLe |-> pLe, inBuffer |-> inBuffer,
              outNull |-> outNull, script |-> script, resp |-> resp]]

\* The return of that call: r is what SendAPDUML computed.
SendReturn(nSlot, r) ==
  /\ r.done
  /\ drvLock' = [drvLock EXCEPT ![nSlot] = r.lock]
  /\ last' = [last EXCEPT !.op = "SendAPDUML", !.rv = r.rv,
                          !.pre = hCardsTransactions[nSlot], !.log = r.log,
                          !.sent = r.sent, !.SW = r.SW, !.pLe = r.pLe, !.out = r.out]

\* The SendAPDUML call under way, from entry to return.
SendAPDUMLCall ==
  /\ last.op = "SendAPDUML call"
  /\ DriverAccepts(last.s, last.req.script)
  /\ SendReturn(last.s,
       SendAPDUML(hCards[last.s], hCardsTransactions[last.s], drvLock[last.s],
                  last.req.cmd, last.req.Lc, last.req.pLe, last.req.inBuffer,
                  last.req.outNull, last.out, 0, last.req.script, last.req.resp))
  /\ UNCHANGED <<prog, drvCtx, drvConn, aside>>

\* ----------------------------------------------------------- ReadBinaryML

\* The card image: the byte at position i of the selected elementary file.
FileByte(i) == (7 * i + 3) % 251

\* The card's answer to the READ BINARY in buf (CLA INS P1 P2 Le, the offset
\* in P1 P2, Le = 0 asking for 256 bytes): the bytes from the offset on, all
\* Le of them with SW 9000, or those left before the end of the file with SW
\* 6282; at the end of the file no data and the status eofSW.
CardReadBinary(S, buf, eofSW) ==
  LET off == buf[3] * 256 + buf[4]
      le == IF buf[5] = 0 THEN 256 ELSE buf[5]
      n == IF off < S THEN Min(le, S - off) ELSE 0
      data == [i \in 1 .. n |-> FileByte(off + i - 1)]
  IN IF off + le <= S THEN data \o <<144, 0>>
     ELSE IF off < S THEN data \o <<98, 130>>
     ELSE <<Byte(eofSW, 1), Byte(eofSW, 0)>>

\* memcpy(dst + at, src, n)
MemcpyAt(dst, at, src, n) ==
  [i \in 1 .. Len(dst) |-> IF at < i /\ i <= at + n THEN src[i - at] ELSE dst[i]]

\* What the driver answers to the k-th APDU of a call: the script of the
\* fault when it falls on that APDU, a plain success otherwise.
NoFault == [at |-> 0, script |-> <<Attempt("ok", TRUE, TRUE)>>]
ScriptFor(fault, k) == IF fault.at = k THEN fault.script ELSE NoFault.script

\* One READ BINARY of ReadBinaryML: SendAPDUML(nSlot, APDU_READBINARY|Offset1,
\* 0, pLe, 0, tmpBuffer, &SW), the card answering from its file.  Offset1 is
\* a WORD and the low 16 bits of APDU_READBINARY are 0, so the | is a sum.
ReadBinaryAPDU(h, depth, S, eofSW, fault, r, pLe) ==
  LET cmd == APDU_READBINARY + r.Offset1
  IN SendAPDUML(h, depth, r.lock, cmd, 0, pLe, <<>>, FALSE, r.tmpBuffer, r.SW,
                ScriptFor(fault, r.n + 1),
                CardReadBinary(S, SendBuffer(cmd, 0, pLe, <<>>), eofSW))

\* r after the call a: rv, SW and tmpBuffer as SendAPDUML left them.
AfterAPDU(r, a) ==
  [r EXCEPT !.rv = a.rv, !.SW = a.SW, !.tmpBuffer = a.out, !.lock = a.lock,
            !.log = @ \o a.log, !.sent = @ \o a.sent, !.n = @ + 1]

\* The body of the chunk loop after its SendAPDUML has returned a, with r1
\* the locals after the call (blockLen is what the call left in *pLe).  A
\* chunk that comes back shorter is copied to Buffer, then *Len is set to
\* letti, which does not count it yet, and the loop is left with
\* C_WRONG_LENGTH.  goto is set when the code jumps to CleanUp, next when the
\* loop goes on to its test.
ChunkBody(a, r1) ==
  IF a.rv # C_OK THEN [r1 EXCEPT !.goto = TRUE]
  ELSE IF a.SW # SW_OK /\ a.SW # SW_WRONG_LENGTH
    THEN [r1 EXCEPT !.rv = a.SW, !.goto = TRUE]
  ELSE IF r1.blockLen # EXCHANGE_BUFFER
    THEN [r1 EXCEPT !.Buffer = MemcpyAt(@, r1.letti, r1.tmpBuffer, r1.blockLen),
                    !.Len = r1.letti, !.rv = C_WRONG_LENGTH, !.goto = TRUE]
  ELSE [r1 EXCEPT !.Buffer = MemcpyAt(@, r1.letti, r1.tmpBuffer, r1.blockLen),
                  !.dimDati = @ - EXCHANGE_BUFFER,
                  !.letti = @ + r1.blockLen,
                  !.Offset1 = (@ + r1.blockLen) % 65536]

Chunk(r, a) == ChunkBody(a, [AfterAPDU(r, a) EXCEPT !.blockLen = a.pLe])

\* while (dimDati >= EXCHANGE_BUFFER): one READ BINARY per full chunk, with
\* &blockLen as pLe.
RECURSIVE ReadChunks(_, _, _, _, _, _)
ReadChunks(h, depth, S, eofSW, fault, r) ==
  IF r.goto \/ r.dimDati < EXCHANGE_BUFFER THEN r
  ELSE ReadChunks(h, depth, S, eofSW, fault,
         Chunk(r, ReadBinaryAPDU(h, depth, S, eofSW, fault, r, r.blockLen)))

\* The body of the residue after its SendAPDUML has returned a, with r1 the
\* locals after the call; rv stays the C_OK of SendAPDUML whatever the status
\* word.
ResidueBody(a, r1) ==
  IF a.rv # C_OK THEN [r1 EXCEPT !.goto = TRUE]
  ELSE IF a.SW # SW_OK /\ a.SW # SW_WRONG_LENGTH
    THEN [r1 EXCEPT !.rv = a.SW, !.goto = TRUE]
  ELSE [r1 EXCEPT !.Buffer = MemcpyAt(@, r1.letti, r1.tmpBuffer, r1.dimDati),
                  !.letti = @ + r1.dimDati]

\* if (dimDati > 0): the residue, read with (BYTE*)&dimDati as pLe.  On the
\* little-endian targets of the library that is the low byte of dimDati, so
\* what SendAPDUML stores in *pLe becomes the number of bytes copied and
\* counted.
Residue(r, a) == ResidueBody(a, [AfterAPDU(r, a) EXCEPT !.dimDati = (@ - (@ % 256)) + a.pLe])

ReadResidue(h, depth, S, eofSW, fault, r) ==
  IF r.goto \/ r.dimDati = 0 THEN r
  ELSE Residue(r, ReadBinaryAPDU(h, depth, S, eofSW, fault, r, r.dimDati % 256))

\* The end of the function before CleanUp.
ReadEnd(r) ==
  IF r.goto THEN r
  ELSE IF r.rv # C_OK /\ r.rv # SW_WRONG_LENGTH THEN [r EXCEPT !.rv = r.SW, !.goto = TRUE]
  ELSE [r EXCEPT !.Len = r.letti]

\* ReadBinaryML(Offset, Buffer, Len, nSlot) from the parameter checks to the
\* return, between its BeginTransactionML (depth is the counter after it,
\* lock the driver lock after it) and its EndTransactionML.  tmpBuffer is not
\* initialized: every byte of it starts as junk.
ReadBinary(h, depth, lock, S, eofSW, junk, fault, Offset, N) ==
  ReadEnd(
    ReadResidue(h, depth, S, eofSW, fault,
      ReadChunks(h, depth, S, eofSW, fault,
        [rv |-> C_OK, SW |-> 0, Offset1 |-> Offset % 65536, dimDati |-> N,
         blockLen |-> EXCHANGE_BUFFER, letti |-> 0,
         tmpBuffer |-> [i \in 1 .. 256 |-> junk],
         Buffer |-> [i \in 1 .. N |-> 0], Len |-> N,
         lock |-> lock, log |-> <<>>, sent |-> <<>>, n |-> 0, goto |-> FALSE])))

\* A caller's ReadBinaryML request, with what the environment will do to it.
Request(t, nSlot, Offset, N, fault, eofSW, junk) ==
  [Call("ReadBinaryML call", t, nSlot, C_OK, 0, <<>>) EXCEPT
     !.Len = N,
     !.req = [Offset |-> Offset, N |-> N, fault |-> fault, eofSW |-> eofSW, junk |-> junk]]

\* The driver lock after the BeginTransactionML of a card operation entered
\* with the counter at pre.
LockAfterBegin(nSlot, pre, beginOk) ==
  IF pre = 0 THEN drvLock[nSlot] \/ beginOk ELSE drvLock[nSlot]

\* The return of ReadBinaryML: its EndTransactionML takes the counter back to
\* pre and releases the driver lock when pre is 0.
ReadBinaryReturn(nSlot, pre, beginOk, endOk, r) ==
  /\ drvLock' = [drvLock EXCEPT ![nSlot] = IF pre = 0 THEN r.lock /\ ~endOk ELSE r.lock]
  /\ last' = [last EXCEPT
       !.op = "ReadBinaryML", !.rv = r.rv, !.pre = pre,
       !.log = IF pre = 0
                 THEN <<Drv("SCardBeginTransaction", hCards[nSlot], beginOk, drvLock[nSlot])>>
                      \o r.log
                      \o <<Drv("SCardEndTransaction", hCards[nSlot], endOk, r.lock)>>
                 ELSE r.log,
       !.sent = r.sent, !.SW = r.SW, !.out = r.Buffer, !.Len = r.Len]

\* The ReadBinaryML call under way, from entry to return.
ReadBinaryML ==
  /\ last.op = "ReadBinaryML call"
  /\ IF ~initialized
       THEN /\ last' = [last EXCEPT !.op = "ReadBinaryML", !.rv = C_NOT_INITIALIZED]
            /\ UNCHANGED drvLock
     ELSE IF last.req.N = 0
       THEN /\ last' = [last EXCEPT !.op = "ReadBinaryML", !.rv = C_GENERIC_ERROR]
            /\ UNCHANGED drvLock
     ELSE
       \E beginOk \in BOOLEAN, endOk \in BOOLEAN :
         /\ beginOk => drvConn[last.s]
         /\ endOk => drvConn[last.s]
         /\ hCardsTransactions[last.s] # 0 =>
              (beginOk = drvConn[last.s] /\ endOk = drvConn[last.s])
         /\ DriverAccepts(last.s, ScriptFor(last.req.fault, 1))
         /\ ReadBinaryReturn(last.s, hCardsTransactions[last.s], beginOk, endOk,
              ReadBinary(hCards[last.s], hCardsTransactions[last.s] + 1,
                         LockAfterBegin(last.s, hCardsTransactions[last.s], beginOk),
                         efSize, last.req.eofSW, last.req.junk, last.req.fault,
                         last.req.Offset, last.req.N))
  /\ UNCHANGED <<prog, drvCtx, drvConn, aside>>

\* ------------------------------------------------------------ VerifyPINML

SW_AUTH_FAILED == 25344  \* 0x6300

\* A response that is a status word alone.
StatusOnly(sw) == <<Byte(sw, 1), Byte(sw, 0)>>

\* The locals of a card operation when it has called BeginTransactionML: rv,
\* SW, the driver lock, the driver calls made, the buffers transmitted and n,
\* the number of SendAPDUML calls made.
Locals(lock) ==
  [rv |-> C_OK, SW |-> 0, tmpBuffer |-> <<>>, lock |-> lock,
   log |-> <<>>, sent |-> <<>>, n |-> 0, goto |-> FALSE]

\* if (rv != C_OK) goto CleanUp
OrCleanUp(r) == IF r.rv # C_OK THEN [r EXCEPT !.goto = TRUE] ELSE r

\* One APDU with no Le and no output buffer, answered with the status word
\* sws[k] when it is the k-th SendAPDUML call of the operation.
StatusAPDU(h, depth, fault, sws, r, cmd, Lc, inBuffer) ==
  OrCleanUp(AfterAPDU(r,
    SendAPDUML(h, depth, r.lock, cmd, Lc, NoLe, inBuffer, TRUE, <<>>, r.SW,
               ScriptFor(fault, r.n + 1), StatusOnly(sws[r.n + 1]))))

\* memset(nPin, 0, 8); memcpy(nPin, pin, min(strlen(pin), 8))
Pad8(pin) == [i \in 1 .. 8 |-> IF i <= Len(pin) THEN pin[i] ELSE 0]

\* VERIFY with the PIN as given, Lc = (BYTE)strlen(pin).
VerifyAsGiven(h, depth, fault, sws, pin, r) ==
  StatusAPDU(h, depth, fault, sws, r, APDU_VERIFYPIN + 129, Len(pin) % 256, pin)

\* With the retry on 6700 left out.
VerifyPadded_Skipped(h, depth, fault, sws, pin, r) == r

\* if (SW == 0x6700): VERIFY again with Lc = 8 and the PIN padded with zeros
\* or cut to 8 bytes.
VerifyPadded(h, depth, fault, sws, pin, r) ==
  IF r.goto \/ r.SW # \H6700 THEN r
  ELSE StatusAPDU(h, depth, fault, sws, r, APDU_VERIFYPIN + 129, 8, Pad8(pin))

\* rv = SW; goto CleanUp
ReturnSW(r) == IF r.goto THEN r ELSE [r EXCEPT !.rv = r.SW, !.goto = TRUE]

\* if (SW == SW_AUTH_FAILED): VERIFY with Lc = 0, whose status word is
\* returned.
VerifyTriesLeft(h, depth, fault, sws, r) ==
  IF r.goto \/ r.SW # SW_AUTH_FAILED THEN r
  ELSE ReturnSW(StatusAPDU(h, depth, fault, sws, r, APDU_VERIFYPIN + 129, 0, <<>>))

\* if (SW != SW_OK) { rv = SW; goto CleanUp; }
UnlessOK(r) == IF r.goto \/ r.SW = SW_OK THEN r ELSE ReturnSW(r)

\* VerifyPINML between its BeginTransactionML and its EndTransactionML.
VerifyPIN(h, depth, lock, fault, sws, pin) ==
  UnlessOK(
    VerifyTriesLeft(h, depth, fault, sws,
      VerifyPadded(h, depth, fault, sws, pin,
        VerifyAsGiven(h, depth, fault, sws, pin, Locals(lock)))))

\* The return of a card operation: its EndTransactionML takes the counter
\* back to pre and releases the driver lock when pre is 0.
OpReturn(op, nSlot, pre, beginOk, endOk, r) ==
  /\ drvLock' = [drvLock EXCEPT ![nSlot] = IF pre = 0 THEN r.lock /\ ~endOk ELSE r.lock]
  /\ last' = [last EXCEPT
       !.op = op, !.rv = r.rv, !.pre = pre,
       !.log = IF pre = 0
                 THEN <<Drv("SCardBeginTransaction", hCards[nSlot], beginOk, drvLock[nSlot])>>
                      \o r.log
                      \o <<Drv("SCardEndTransaction", hCards[nSlot], endOk, r.lock)>>
                 ELSE r.log,
       !.sent = r.sent, !.SW = r.SW]

\* What the driver can answer to the BeginTransactionML and the
\* EndTransactionML of a card operation on nSlot.
DriverLocks(nSlot, beginOk, endOk) ==
  /\ beginOk => drvConn[nSlot]
  /\ endOk => drvConn[nSlot]
  /\ hCardsTransactions[nSlot] # 0 => (beginOk = drvConn[nSlot] /\ endOk = drvConn[nSlot])

\* A caller's VerifyPINML request, with what the environment will do to it:
\* sws[k] is the card's status word for the k-th APDU.
VerifyRequest(t, nSlot, nPIN, pin, fault, sws) ==
  [Call("VerifyPINML call", t, nSlot, C_OK, 0, <<>>) EXCEPT
     !.req = [nPIN |-> nPIN, pin |-> pin, fault |-> fault, sws |-> sws]]

\* The VerifyPINML call under way, from entry to return.
VerifyPINML ==
  /\ last.op = "VerifyPINML call"
  /\ IF ~initialized
       THEN /\ last' = [last EXCEPT !.op = "VerifyPINML", !.rv = C_NOT_INITIALIZED]
            /\ UNCHANGED drvLock
     ELSE IF last.req.nPIN # 1
       THEN /\ last' = [last EXCEPT !.op = "VerifyPINML", !.rv = C_GENERIC_ERROR]
            /\ UNCHANGED drvLock
     ELSE
       \E beginOk \in BOOLEAN, endOk \in BOOLEAN :
         /\ DriverLocks(last.s, beginOk, endOk)
         /\ DriverAccepts(last.s, ScriptFor(last.req.fault, 1))
         /\ OpReturn("VerifyPINML", last.s, hCardsTransactions[last.s], beginOk, endOk,
              VerifyPIN(hCards[last.s], hCardsTransactions[last.s] + 1,
                        LockAfterBegin(last.s, hCardsTransactions[last.s], beginOk),
                        last.req.fault, last.req.sws, last.req.pin))
  /\ UNCHANGED <<prog, drvCtx, drvConn, aside>>

\* ------------------------------------- ReadCounterML / ReadBalanceML

C_FILE_NOT_FOUND == 27266  \* 0x6A82
C_UNKNOWN_OBJECT == 27272  \* 0x6A88
FID_MF == 16128  \* 0x3F00
FID_SIAE_APP_DOMAIN == 0  \* 0x0000
FID_P11_APP_DOMAIN == 4369  \* 0x1111
FID_SIAE_CNT_DOMAIN == 4370  \* 0x1112
FID_EF_CNT == 4096  \* 0x1000
FID_EF_BALANCE_CNT == 4097  \* 0x1001
APDU_CMP_SIGILLO == 3310354  \* 0x00328312
APDU_MSE_RESTORE == 2290433  \* 0x0022F301
APDU_MSE == 2290104  \* 0x0022F1B8
APDU_SIGN == 2785414  \* 0x002A8086

\* What the card answers to the k-th APDU of an operation: the status word
\* failSW alone when k is failAt; otherwise 9000, after the bytes data when
\* the APDU is one that returns data.
StatusAnswer(ans, k) == IF k = ans.failAt THEN StatusOnly(ans.failSW) ELSE <<144, 0>>
DataAnswer(ans, k) == IF k = ans.failAt THEN StatusOnly(ans.failSW) ELSE ans.data \o <<144, 0>>

\* The locals of an operation that reads data: len is the BYTE passed as pLe,
\* tmpBuffer the buffer passed as outBuffer, out what the caller's output
\* parameters hold.
OpLocals(lock, len, tmpBuffer, out) ==
  [rv |-> C_OK, SW |-> 0, tmpBuffer |-> tmpBuffer, len |-> len, out |-> out,
   lock |-> lock, log |-> <<>>, sent |-> <<>>, n |-> 0, goto |-> FALSE]

\* SelectML as its caller sees it: the locals r with the value SelectML
\* returned in rv (the transport code, else the status word when it is not
\* 9000, else C_OK); SW is SelectML's own and the caller's is left alone.
Selected(r, a) ==
  [AfterAPDU(r, a) EXCEPT
     !.SW = r.SW, !.tmpBuffer = r.tmpBuffer,
     !.rv = IF a.rv # C_OK THEN a.rv ELSE IF a.SW # \H9000 THEN a.SW ELSE C_OK]

\* SelectML(fid, nSlot) called inside an operation at depth: its own
\* BeginTransactionML and EndTransactionML find the counter above 0 and call
\* nothing.
SelectML(h, depth, fault, ans, r, fid) ==
  Selected(r,
    SendAPDUML(h, depth + 1, r.lock, APDU_SELECT, 2, NoLe, <<Byte(fid, 1), Byte(fid, 0)>>,
               TRUE, <<>>, 0, ScriptFor(fault, r.n + 1), StatusAnswer(ans, r.n + 1)))

\* if (rv != C_OK) { rv = C_FILE_NOT_FOUND; goto CleanUp; }
OrFileNotFound(r) ==
  IF r.rv # C_OK THEN [r EXCEPT !.rv = C_FILE_NOT_FOUND, !.goto = TRUE] ELSE r

\* The SelectML calls of a file walk, one after the other until one fails.
RECURSIVE FileWalk(_, _, _, _, _, _, _)
FileWalk(h, depth, fault, ans, fids, i, r) ==
  IF r.goto \/ i > Len(fids) THEN r
  ELSE FileWalk(h, depth, fault, ans, fids, i + 1,
         OrFileNotFound(SelectML(h, depth, fault, ans, r, fids[i])))

\* r after a SendAPDUML call that was given &len as pLe.
WithLen(r, a) == [AfterAPDU(r, a) EXCEPT !.len = a.pLe]

\* One APDU with Lc data bytes that reads len bytes into tmpBuffer.
DataAPDU(h, depth, fault, ans, r, cmd, Lc, inBuffer) ==
  IF r.goto THEN r
  ELSE OrCleanUp(WithLen(r,
         SendAPDUML(h, depth, r.lock, cmd, Lc, r.len, inBuffer, FALSE, r.tmpBuffer, r.SW,
                    ScriptFor(fault, r.n + 1), DataAnswer(ans, r.n + 1))))

\* tmp[0]<<24 | tmp[1]<<16 | tmp[2]<<8 | tmp[3], the DWORD held as the 32-bit
\* two's-complement integer with the same bits.
BE32(tmp) ==
  (((IF tmp[1] >= 128 THEN tmp[1] - 256 ELSE tmp[1]) * 256 + tmp[2]) * 256 + tmp[3]) * 256
    + tmp[4]

\* The end of ReadCounterML and of ReadBalanceML: the status word, then the
\* length, then *value.
CounterValue(r) ==
  IF r.goto THEN r
  ELSE IF r.SW # SW_OK THEN ReturnSW(r)
  ELSE IF r.len # 4 THEN [r EXCEPT !.rv = C_WRONG_LENGTH, !.goto = TRUE]
  ELSE [r EXCEPT !.out = BE32(r.tmpBuffer)]

\* ReadCounterML (fid FID_EF_CNT) and ReadBalanceML (fid FID_EF_BALANCE_CNT)
\* between BeginTransactionML and EndTransactionML; tmp is not initialized.
ReadCounter32(h, depth, lock, fault, ans, junk, fid, value) ==
  CounterValue(
    DataAPDU(h, depth, fault, ans,
      FileWalk(h, depth, fault, ans,
               <<FID_MF, FID_SIAE_APP_DOMAIN, FID_SIAE_CNT_DOMAIN, fid>>, 1,
               OpLocals(lock, 4, [i \in 1 .. 4 |-> junk], value)),
      APDU_READ_COUNTER, 0, <<>>))

\* A caller's request for a card operation op with arguments args, with what
\* the environment will do to it; out holds the caller's output parameters.
OpRequest(op, t, nSlot, args, out, fault, ans, junk) ==
  [Call(op, t, nSlot, C_OK, 0, <<>>) EXCEPT
     !.out = out,
     !.req = [args |-> args, fault |-> fault, ans |-> ans, junk |-> junk]]

\* The return of an operation with output parameters whose CleanUp lacks the
\* EndTransactionML.
OpReturnOut_NoEnd(op, nSlot, pre, beginOk, endOk, r) ==
  /\ drvLock' = [drvLock EXCEPT ![nSlot] = r.lock]
  /\ last' = [last EXCEPT
       !.op = op, !.rv = r.rv, !.pre = pre,
       !.log = IF pre = 0
                 THEN <<Drv("SCardBeginTransaction", hCards[nSlot], beginOk, drvLock[nSlot])>>
                      \o r.log
                 ELSE r.log,
       !.sent = r.sent, !.SW = r.SW, !.out = r.out]

\* The return of an operation with output parameters.
OpReturnOut(op, nSlot, pre, beginOk, endOk, r) ==
  /\ drvLock' = [drvLock EXCEPT ![nSlot] = IF pre = 0 THEN r.lock /\ ~endOk ELSE r.lock]
  /\ last' = [last EXCEPT
       !.op = op, !.rv = r.rv, !.pre = pre,
       !.log = IF pre = 0
                 THEN <<Drv("SCardBeginTransaction", hCards[nSlot], beginOk, drvLock[nSlot])>>
                      \o r.log
                      \o <<Drv("SCardEndTransaction", hCards[nSlot], endOk, r.lock)>>
                 ELSE r.log,
       !.sent = r.sent, !.SW = r.SW, !.out = r.out]

\* if (!IsInitialized()) return C_NOT_INITIALIZED;
NotInitialized(op) ==
  /\ last' = [last EXCEPT !.op = op, !.rv = C_NOT_INITIALIZED]
  /\ UNCHANGED drvLock

\* The ReadCounterML call under way, from entry to return.
ReadCounterML ==
  /\ last.op = "ReadCounterML call"
  /\ IF ~initialized THEN NotInitialized("ReadCounterML")
     ELSE \E beginOk \in BOOLEAN, endOk \in BOOLEAN :
             /\ DriverLocks(last.s, beginOk, endOk)
             /\ DriverAccepts(last.s, ScriptFor(last.req.fault, 1))
             /\ OpReturnOut("ReadCounterML", last.s, hCardsTransactions[last.s], beginOk, endOk,
                  ReadCounter32(hCards[last.s], hCardsTransactions[last.s] + 1,
                                LockAfterBegin(last.s, hCardsTransactions[last.s], beginOk),
                                last.req.fault, last.req.ans, last.req.junk,
                                FID_EF_CNT, last.out))
  /\ UNCHANGED <<prog, drvCtx, drvConn, aside>>

\* The ReadBalanceML call under way, from entry to return.
ReadBalanceML ==
  /\ last.op = "ReadBalanceML call"
  /\ IF ~initialized THEN NotInitialized("ReadBalanceML")
     ELSE \E beginOk \in BOOLEAN, endOk \in BOOLEAN :
             /\ DriverLocks(last.s, beginOk, endOk)
             /\ DriverAccepts(last.s, ScriptFor(last.req.fault, 1))
             /\ OpReturnOut("ReadBalanceML", last.s, hCardsTransactions[last.s], beginOk, endOk,
                  ReadCounter32(hCards[last.s], hCardsTransactions[last.s] + 1,
                                LockAfterBegin(last.s, hCardsTransactions[last.s], beginOk),
                                last.req.fault, last.req.ans, last.req.junk,
                                FID_EF_BALANCE_CNT, last.out))
  /\ UNCHANGED <<prog, drvCtx, drvConn, aside>>

\* ------------------------------------------------ ComputeSigilloML / SignML

\* pSend of ComputeSigilloML: 00 01, SN, Data_Ora, Prezzo high byte first.
Challenge(SN, Data_Ora, Prezzo) ==
  <<0, 1>> \o SN \o Data_Ora
    \o <<Byte(Prezzo, 3), Byte(Prezzo, 2), Byte(Prezzo, 1), Byte(Prezzo, 0)>>

\* The end of ComputeSigilloML: the status word, then *cnt and mac from tmp;
\* len is not looked at.
SealValue(r) ==
  IF r.goto THEN r
  ELSE IF r.SW # SW_OK THEN ReturnSW(r)
  ELSE [r EXCEPT !.out = [cnt |-> BE32(r.tmpBuffer), mac |-> SubSeq(r.tmpBuffer, 5, 12)]]

\* ComputeSigilloML between BeginTransactionML and EndTransactionML; tmp is
\* not initialized.
ComputeSigillo(h, depth, lock, fault, ans, junk, Data_Ora, Prezzo, SN, out) ==
  SealValue(
    DataAPDU(h, depth, fault, ans,
      FileWalk(h, depth, fault, ans,
               <<FID_MF, FID_SIAE_APP_DOMAIN, FID_SIAE_CNT_DOMAIN, FID_EF_CNT>>, 1,
               OpLocals(lock, 12, [i \in 1 .. 12 |-> junk], out)),
      APDU_CMP_SIGILLO, 22, Challenge(SN, Data_Ora, Prezzo)))

\* The ComputeSigilloML call under way, from entry to return.
ComputeSigilloML ==
  /\ last.op = "ComputeSigilloML call"
  /\ IF ~initialized THEN NotInitialized("ComputeSigilloML")
     ELSE \E beginOk \in BOOLEAN, endOk \in BOOLEAN :
             /\ DriverLocks(last.s, beginOk, endOk)
             /\ DriverAccepts(last.s, ScriptFor(last.req.fault, 1))
             /\ OpReturnOut("ComputeSigilloML", last.s, hCardsTransactions[last.s],
                  beginOk, endOk,
                  ComputeSigillo(hCards[last.s], hCardsTransactions[last.s] + 1,
                                 LockAfterBegin(last.s, hCardsTransactions[last.s], beginOk),
                                 last.req.fault, last.req.ans, last.req.junk,
                                 last.req.args.Data_Ora, last.req.args.Prezzo,
                                 last.req.args.SN, last.out))
  /\ UNCHANGED <<prog, drvCtx, drvConn, aside>>

\* r after a SendAPDUML call that was given no output buffer.
NoOutput(r, a) == [AfterAPDU(r, a) EXCEPT !.tmpBuffer = r.tmpBuffer]

\* One APDU with no Le and no output buffer, answered by the card's status
\* word; rv is left for the caller to look at.
CommandAPDU(h, depth, fault, ans, r, cmd, Lc, inBuffer) ==
  IF r.goto THEN r
  ELSE NoOutput(r,
         SendAPDUML(h, depth, r.lock, cmd, Lc, NoLe, inBuffer, TRUE, <<>>, r.SW,
                    ScriptFor(fault, r.n + 1), StatusAnswer(ans, r.n + 1)))

\* The end of SignML: Signed is the buffer the last APDU wrote to.
SignedOut(r) == [r EXCEPT !.out = r.tmpBuffer]

\* SignML between BeginTransactionML and EndTransactionML: the file walk, MSE
\* RESTORE whose result is overwritten unread, MSE SET with 83 01 kx, and PSO
\* with 00 and the 128 bytes to sign, reading 128 bytes into Signed.
Sign(h, depth, lock, fault, ans, kx, toSign, Signed) ==
  SignedOut(
    UnlessOK(
      DataAPDU(h, depth, fault, ans,
        UnlessOK(OrCleanUp(
          CommandAPDU(h, depth, fault, ans,
            CommandAPDU(h, depth, fault, ans,
              FileWalk(h, depth, fault, ans,
                       <<FID_MF, FID_SIAE_APP_DOMAIN, FID_P11_APP_DOMAIN>>, 1,
                       OpLocals(lock, 128, Signed, Signed)),
              APDU_MSE_RESTORE, 0, <<>>),
            APDU_MSE, 3, <<131, 1, kx % 256>>))),
        APDU_SIGN, 129, <<0>> \o toSign)))

\* The SignML call under way, from entry to return.
SignML ==
  /\ last.op = "SignML call"
  /\ IF ~initialized THEN NotInitialized("SignML")
     ELSE IF last.req.args.kx > 255
       THEN /\ last' = [last EXCEPT !.op = "SignML", !.rv = C_UNKNOWN_OBJECT]
            /\ UNCHANGED drvLock
     ELSE \E beginOk \in BOOLEAN, endOk \in BOOLEAN :
             /\ DriverLocks(last.s, beginOk, endOk)
             /\ DriverAccepts(last.s, ScriptFor(last.req.fault, 1))
             /\ OpReturnOut("SignML", last.s, hCardsTransactions[last.s], beginOk, endOk,
                  Sign(hCards[last.s], hCardsTransactions[last.s] + 1,
                       LockAfterBegin(last.s, hCardsTransactions[last.s], beginOk),
                       last.req.fault, last.req.ans,
                       last.req.args.kx, last.req.args.toSign, last.out))
  /\ UNCHANGED <<prog, drvCtx, drvConn, aside>>

\* ------------------------------- SelectML / GetKeyIDML / GetCertificateML

APDU_READRECORD == 11665408  \* 0x00B20000
C_RECORD_NOT_FOUND == 27267  \* 0x6A83
C_WRONG_LEN == 27269  \* 0x6A85

\* The SelectML call under way, from entry to return, when it is the
\* caller's own call: its BeginTransactionML and EndTransactionML are the
\* outermost ones.
SelectMLCall ==
  /\ last.op = "SelectML call"
  /\ \E beginOk \in BOOLEAN, endOk \in BOOLEAN :
       /\ DriverLocks(last.s, beginOk, endOk)
       /\ DriverAccepts(last.s, ScriptFor(last.req.fault, 1))
       /\ OpReturn("SelectML", last.s, hCardsTransactions[last.s], beginOk, endOk,
            SelectML(hCards[last.s], hCardsTransactions[last.s],
                     last.req.fault, last.req.ans,
                     Locals(LockAfterBegin(last.s, hCardsTransactions[last.s], beginOk)),
                     last.req.args.fid))
  /\ UNCHANGED <<prog, drvCtx, drvConn, aside>>

\* What the card answers to READ RECORD of record nRec when it is the k-th
\* APDU of GetKeyIDML: ans.data[nRec] is the status byte of the key nRec, and
\* there are no more records than ans.data has bytes.
RecordAnswer(ans, nRec, k) ==
  IF k = ans.failAt THEN StatusOnly(ans.failSW)
  ELSE IF nRec <= Len(ans.data) THEN <<ans.data[nRec], 144, 0>>
  ELSE StatusOnly(C_RECORD_NOT_FOUND)

\* The return of ReadRecordML after its SendAPDUML call a.
RecordRead(r, a) ==
  [WithLen(r, a) EXCEPT
     !.rv = IF a.rv # C_OK THEN a.rv ELSE IF a.SW # SW_OK THEN a.SW ELSE C_OK]

\* ReadRecordML(nRec, &status, &len, nSlot) called inside an operation at
\* depth: status is tmpBuffer[1], and (BYTE*)&len is passed as pLe.
ReadRecord(h, depth, fault, ans, r, nRec) ==
  IF ~initialized THEN [r EXCEPT !.rv = C_NOT_INITIALIZED]
  ELSE IF r.len > 255 THEN [r EXCEPT !.rv = C_WRONG_LENGTH]
  ELSE IF nRec > 255 THEN [r EXCEPT !.rv = C_RECORD_NOT_FOUND]
  ELSE RecordRead(r,
         SendAPDUML(h, depth + 1, r.lock, APDU_READRECORD + 4 + nRec * 256, 0, r.len,
                    <<>>, FALSE, r.tmpBuffer, 0, ScriptFor(fault, r.n + 1),
                    RecordAnswer(ans, nRec, r.n + 1)))

\* SelectML calls one after the other, each followed by
\* if (... != C_OK) goto CleanUp.
RECURSIVE SelectAll(_, _, _, _, _, _, _)
SelectAll(h, depth, fault, ans, fids, i, r) ==
  IF r.goto \/ i > Len(fids) THEN r
  ELSE SelectAll(h, depth, fault, ans, fids, i + 1,
         OrCleanUp(SelectML(h, depth, fault, ans, r, fids[i])))

\* while (ReadRecordML(n, &status, &len, nSlot) == C_OK): r1 is the state
\* after the call for record n; brv is kept in out.
RECURSIVE KeyRecord(_, _, _, _, _, _)
KeyRecord(h, depth, fault, ans, n, r1) ==
  IF r1.rv # C_OK THEN r1
  ELSE IF r1.tmpBuffer[1] = 1 THEN [r1 EXCEPT !.out = (n + 128) % 256]
  ELSE KeyRecord(h, depth, fault, ans, n + 1,
         ReadRecord(h, depth, fault, ans, [r1 EXCEPT !.len = IF @ > 1 THEN 1 ELSE @], n + 1))

\* The loop over the key records, entered when the three files were selected.
KeyRecords(h, depth, fault, ans, r) ==
  IF r.goto THEN r
  ELSE KeyRecord(h, depth, fault, ans, 1, ReadRecord(h, depth, fault, ans, r, 1))

\* GetKeyIDML between its BeginTransactionML and its EndTransactionML: brv
\* (in out) is 0 unless a record with status 1 was read; status is not
\* initialized.
GetKeyID(h, depth, lock, fault, ans, junk) ==
  KeyRecords(h, depth, fault, ans,
    SelectAll(h, depth, fault, ans,
              <<FID_SIAE_APP_DOMAIN, FID_P11_APP_DOMAIN, \H5F02>>, 1,
              OpLocals(lock, 1, <<junk>>, 0)))

\* return brv
KeyIDReturn(r) == [r EXCEPT !.rv = r.out]

\* The GetKeyIDML call under way, from entry to return.
GetKeyIDML ==
  /\ last.op = "GetKeyIDML call"
  /\ \E beginOk \in BOOLEAN, endOk \in BOOLEAN :
       /\ DriverLocks(last.s, beginOk, endOk)
       /\ DriverAccepts(last.s, ScriptFor(last.req.fault, 1))
       /\ OpReturnOut("GetKeyIDML", last.s, hCardsTransactions[last.s], beginOk, endOk,
            KeyIDReturn(
              GetKeyID(hCards[last.s], hCardsTransactions[last.s] + 1,
                       LockAfterBegin(last.s, hCardsTransactions[last.s], beginOk),
                       last.req.fault, last.req.ans, last.req.junk)))
  /\ UNCHANGED <<prog, drvCtx, drvConn, aside>>

\* The fault as a ReadBinaryML call sees it that starts when n APDUs of the
\* operation were sent.
FaultFrom(fault, n) == IF fault.at > n THEN [fault EXCEPT !.at = @ - n] ELSE NoFault

\* A ReadBinaryML call that returns rv from its parameter checks.
NoRead(r, rv, N) ==
  [rv |-> rv, lock |-> r.lock, log |-> <<>>, sent |-> <<>>, n |-> 0,
   Buffer |-> <<>>, Len |-> N]

\* ReadBinaryML(Offset, Buffer, &N, nSlot) called inside an operation at
\* depth, on the elementary file of S bytes.
ReadBinaryIn(h, depth, S, eofSW, junk, fault, r, Offset, N) ==
  IF ~initialized THEN NoRead(r, C_NOT_INITIALIZED, N)
  ELSE IF N = 0 THEN NoRead(r, C_GENERIC_ERROR, N)
  ELSE ReadBinary(h, depth + 1, r.lock, S, eofSW, junk, FaultFrom(fault, r.n), Offset, N)

\* r after the ReadBinaryML call b.
AfterRead(r, b) ==
  [r EXCEPT !.rv = b.rv, !.lock = b.lock, !.log = @ \o b.log, !.sent = @ \o b.sent,
            !.n = @ + b.n]

\* return C_GENERIC_ERROR
GenericError(r) == [r EXCEPT !.rv = C_GENERIC_ERROR, !.goto = TRUE]

\* GetCert after rv = ReadBinaryML(0, dimBuff, &q): the size dd of the
\* certificate is dimBuff[1] << 8 | dimBuff[0]; a capacity *dim below it ends
\* the call with C_WRONG_LEN and *dim = dd.
\* GetCert without the test of *dim against the stored length
CertSize_NoProbe(r, b) ==
  IF b.rv # C_OK \/ b.Len < 2 THEN GenericError(AfterRead(r, b))
  ELSE [AfterRead(r, b) EXCEPT !.out.dim = b.Buffer[2] * 256 + b.Buffer[1]]

CertSize(r, b) ==
  IF b.rv # C_OK \/ b.Len < 2 THEN GenericError(AfterRead(r, b))
  ELSE IF r.out.dim < b.Buffer[2] * 256 + b.Buffer[1]
    THEN [AfterRead(r, b) EXCEPT !.out.dim = b.Buffer[2] * 256 + b.Buffer[1],
                                 !.rv = C_WRONG_LEN, !.goto = TRUE]
  ELSE [AfterRead(r, b) EXCEPT !.out.dim = b.Buffer[2] * 256 + b.Buffer[1]]

\* GetCert after rv = ReadBinaryML(2, cert, dim), which has written to *dim
\* and to cert.
CertBody(r, b) ==
  IF b.rv # C_OK
    THEN GenericError([AfterRead(r, b) EXCEPT !.out.dim = b.Len, !.out.cert = b.Buffer])
  ELSE [AfterRead(r, b) EXCEPT !.out.dim = b.Len, !.out.cert = b.Buffer]

\* if (cert != NULL) rv = ReadBinaryML(2, cert, dim, nSlot)
CertRead(h, depth, S, eofSW, junk, fault, certNull, r) ==
  IF r.goto \/ certNull THEN r
  ELSE CertBody(r, ReadBinaryIn(h, depth, S, eofSW, junk, fault, r, 2, r.out.dim))

\* q = 2; rv = ReadBinaryML(0, dimBuff, &q, nSlot)
CertSizeRead(h, depth, S, eofSW, junk, fault, r) ==
  IF r.goto THEN r
  ELSE CertSize(r, ReadBinaryIn(h, depth, S, eofSW, junk, fault, r, 0, 2))

\* rv = SelectML(fid, nSlot); if (rv != C_OK) return C_GENERIC_ERROR
CertSelected(r1) == IF r1.rv # C_OK THEN GenericError(r1) ELSE r1
CertSelect(h, depth, fault, ans, r, fid) ==
  IF r.goto THEN r
  ELSE CertSelected(SelectML(h, depth, fault, ans, r, fid))

\* GetCert(fid, cert, dim, nSlot), which opens no transaction of its own.
GetCert(h, depth, S, eofSW, junk, fault, ans, certNull, r, fid) ==
  CertRead(h, depth, S, eofSW, junk, fault, certNull,
    CertSizeRead(h, depth, S, eofSW, junk, fault,
      CertSelect(h, depth, fault, ans, r, fid)))

\* The locals of GetCertificateML after k = GetKeyIDML(nSlot); k -= 128 with
\* k a BYTE; if (k <= 0) { rv = C_GENERIC_ERROR; goto CleanUp; }
KeyOf(r, cert, dim) ==
  [r EXCEPT !.rv = IF (r.out + 128) % 256 = 0 THEN C_GENERIC_ERROR ELSE C_OK,
            !.goto = (r.out + 128) % 256 = 0,
            !.out = [k |-> (r.out + 128) % 256, dim |-> dim, cert |-> cert]]

\* fidcert = ((0x1a + k - 1) << 8) | 2, a WORD
FidCert(k) == ((26 + k - 1) * 256 + 2) % 65536

\* GetCert on the file of the key found.
CertOfKey(h, depth, S, eofSW, junk, fault, ans, certNull, r) ==
  GetCert(h, depth, S, eofSW, junk, fault, ans, certNull, r, FidCert(r.out.k))

\* GetCertificateML between its BeginTransactionML and its
\* EndTransactionML; the GetKeyIDML it calls is one level deeper.
GetCertificate(h, depth, lock, S, eofSW, junk, fault, ans, certNull, cert, dim) ==
  CertOfKey(h, depth, S, eofSW, junk, fault, ans, certNull,
    KeyOf(GetKeyID(h, depth + 1, lock, fault, ans, junk), cert, dim))

\* A caller's GetCertificateML(cert, &dim, nSlot) request, with what the
\* environment will do to it: the card answers READ BINARY from its file and
\* with eofSW at the end of it.
CertRequest(t, nSlot, certNull, dim, fault, ans, junk, eofSW) ==
  [Call("GetCertificateML call", t, nSlot, C_OK, 0, <<>>) EXCEPT
     !.out = [dim |-> dim, cert |-> <<>>],
     !.req = [args |-> [certNull |-> certNull, dim |-> dim], fault |-> fault,
              ans |-> ans, junk |-> junk, eofSW |-> eofSW]]

\* The GetCertificateML call under way, from entry to return; dim is NoLe
\* for a NULL pointer.
GetCertificateML ==
  /\ last.op = "GetCertificateML call"
  /\ IF last.req.args.dim = NoLe
       THEN /\ last' = [last EXCEPT !.op = "GetCertificateML", !.rv = C_GENERIC_ERROR]
            /\ UNCHANGED drvLock
     ELSE \E beginOk \in BOOLEAN :
            LET r == GetCertificate(hCards[last.s], hCardsTransactions[last.s] + 1,
                       LockAfterBegin(last.s, hCardsTransactions[last.s], beginOk),
                       efSize, last.req.eofSW, last.req.junk, last.req.fault, last.req.ans,
                       last.req.args.certNull, last.out.cert, last.req.args.dim)
            IN \E endOk \in BOOLEAN :
                 /\ DriverLocks(last.s, beginOk, endOk)
                 /\ DriverAccepts(last.s, ScriptFor(last.req.fault, 1))
                 /\ OpReturnOut("GetCertificateML", last.s, hCardsTransactions[last.s],
                      beginOk, endOk, r)
  /\ UNCHANGED <<prog, drvCtx, drvConn, aside>>

\* ------------------------------------------------ PKCS7SignML / SMIMESignML

\* Padding(toPad, Len, Padded): 00 01, 128 - Len - 3 bytes FF, 00, toPad.
Padding(toPad) ==
  <<0, 1>> \o [i \in 1 .. 128 - Len(toPad) - 3 |-> 255] \o <<0>> \o toPad

\* Sha1Digest of SignDataML: the DigestInfo header for SHA-1 before the 20
\* bytes of the digest.
Sha1Digest(digest) ==
  <<48, 33, 48, 9, 6, 5, 43, 14, 3, 2, 26, 5, 0, 4, 20>> \o digest

\* The frame of a PKCS7SignML call (fn = "PKCS7SignML") or of a SMIMESignML
\* call with the PKCS7SignML call it makes (fn = "SMIMESignML"): pc is the
\* statement to execute next, calling is TRUE while the library call at pc
\* runs, in and out are szInputFileName and szOutputFileName of PKCS7SignML,
\* output is szOutputFilePath of SMIMESignML, env is what the environment
\* will do.  strTempFile1 is "tmp" and the PKCS7SignML call of SMIMESignML
\* reads "tmp" and writes "tmp.p7m".
Signing(fn, slot, bInitialize, pin, output, env) ==
  [fn |-> fn, pc |-> IF fn = "SMIMESignML" THEN "Mime_Message_New(temp)" ELSE "fopen",
   calling |-> FALSE, slot |-> slot, bInitialize |-> bInitialize, pin |-> pin,
   in |-> IF fn = "SMIMESignML" THEN "tmp" ELSE "in",
   out |-> IF fn = "SMIMESignML" THEN "tmp.p7m" ELSE output,
   output |-> output, env |-> env,
   iInitRes |-> C_OK, ritorno |-> 0, kid |-> 0, lenCer |-> 0, risultato |-> 0,
   rv |-> 0, iRv |-> 0]

\* return(rv) of PKCS7SignML; in SMIMESignML, iRv = PKCS7SignML(...);
\* if (iRv) goto CleanUp.
P7Return(f, rv) ==
  [f EXCEPT !.rv = rv, !.iRv = rv, !.calling = FALSE,
            !.pc = IF f.fn # "SMIMESignML" THEN "returned"
                   ELSE IF rv # 0 THEN "CleanUp" ELSE "Mime_Message_New(output)"]

\* The next statement of PKCS7SignML.
P7Goto(f, pc) == [f EXCEPT !.pc = pc, !.calling = FALSE]

\* SMIMESignML: Mime_Message_New writes the message to strTempFile1; it fails
\* when the file cannot be opened.
SMIMEMessage ==
  /\ p7.pc = "Mime_Message_New(temp)"
  /\ IF p7.env.tmpOk
       THEN /\ files' = files \cup {"tmp"}
            /\ p7' = P7Goto(p7, "fopen")
       ELSE /\ files' = files
            /\ p7' = [p7 EXCEPT !.iRv = C_GENERIC_ERROR, !.pc = "CleanUp"]
  /\ UNCHANGED <<prog, drv, bal, neg, efSize, last>>

\* PKCS7SignML: the input file is opened and read.
P7Open ==
  /\ p7.pc = "fopen"
  /\ p7' = IF p7.in \notin files THEN P7Return(p7, C_GENERIC_ERROR)
           ELSE IF p7.bInitialize THEN P7Goto(p7, "Initialize")
           ELSE P7Goto(p7, "SelectML(0x0000)")
  /\ UNCHANGED <<prog, drv, bal, neg, efSize, files, last>>

\* if (bInitialize) iInitRes = Initialize(slot)
P7Initialize ==
  /\ p7.pc = "Initialize"
  /\ Initialize(1, p7.slot)
  /\ p7' = IF last'.rv # C_OK /\ last'.rv # C_ALREADY_INITIALIZED
             THEN P7Return([p7 EXCEPT !.iInitRes = last'.rv], last'.rv)
           ELSE P7Goto([p7 EXCEPT !.iInitRes = last'.rv], "SelectML(0x0000)")
  /\ UNCHANGED aside

\* The library calls of PKCS7SignML and the call each one is.
P7Calls ==
  {"SelectML(0x0000)", "SelectML(0x1111)", "VerifyPINML", "GetKeyIDML",
   "GetCertificateML(NULL)", "GetCertificateML(certificato)"}

P7Request(f) ==
  CASE f.pc = "SelectML(0x0000)" ->
         OpRequest("SelectML call", 1, f.slot, [fid |-> FID_SIAE_APP_DOMAIN], <<>>,
                   NoFault, f.env.sel[1], 0)
    [] f.pc = "SelectML(0x1111)" ->
         OpRequest("SelectML call", 1, f.slot, [fid |-> FID_P11_APP_DOMAIN], <<>>,
                   NoFault, f.env.sel[2], 0)
    [] f.pc = "VerifyPINML" ->
         VerifyRequest(1, f.slot, 1, f.pin, NoFault, f.env.sws)
    [] f.pc = "GetKeyIDML" ->
         OpRequest("GetKeyIDML call", 1, f.slot, <<>>, 0, NoFault, f.env.key, f.env.junk)
    [] f.pc = "GetCertificateML(NULL)" ->
         CertRequest(1, f.slot, TRUE, 0, NoFault, f.env.cert, f.env.junk, f.env.eofSW)
    [] f.pc = "GetCertificateML(certificato)" ->
         CertRequest(1, f.slot, FALSE, f.lenCer, NoFault, f.env.cert, f.env.junk,
                     f.env.eofSW)

\* PKCS7SignML calls the library function at pc.
P7Call ==
  /\ p7.pc \in P7Calls /\ ~p7.calling
  /\ last' = P7Request(p7)
  /\ p7' = [p7 EXCEPT !.calling = TRUE]
  /\ UNCHANGED <<prog, drv, bal, neg, efSize, files>>

\* ritorno = SelectML(...): the value is overwritten unread.
P7Selected ==
  /\ p7.pc \in {"SelectML(0x0000)", "SelectML(0x1111)"} /\ p7.calling
  /\ SelectMLCall
  /\ p7' = P7Goto([p7 EXCEPT !.ritorno = last'.rv],
                  IF p7.pc = "SelectML(0x0000)" THEN "SelectML(0x1111)" ELSE "VerifyPINML")

\* ritorno = VerifyPINML(1, pin, slot); if (ritorno != C_OK) return(ritorno)
P7Verified ==
  /\ p7.pc = "VerifyPINML" /\ p7.calling
  /\ VerifyPINML
  /\ p7' = IF last'.rv # C_OK THEN P7Return([p7 EXCEPT !.ritorno = last'.rv], last'.rv)
           ELSE P7Goto([p7 EXCEPT !.ritorno = last'.rv], "GetKeyIDML")

\* kid = GetKeyIDML(slot); if (kid == 0) return(C_GENERIC_ERROR)
P7KeyFound ==
  /\ p7.pc = "GetKeyIDML" /\ p7.calling
  /\ GetKeyIDML
  /\ p7' = IF last'.rv = 0 THEN P7Return([p7 EXCEPT !.kid = 0], C_GENERIC_ERROR)
           ELSE P7Goto([p7 EXCEPT !.kid = last'.rv], "GetCertificateML(NULL)")

\* lenCer = 0; ritorno = GetCertificateML(NULL, &lenCer, slot);
\* if (ritorno != C_WRONG_LEN && ritorno != C_OK) return(ritorno)
P7CertSized ==
  /\ p7.pc = "GetCertificateML(NULL)" /\ p7.calling
  /\ GetCertificateML
  /\ p7' = IF last'.rv # C_WRONG_LEN /\ last'.rv # C_OK
             THEN P7Return([p7 EXCEPT !.ritorno = last'.rv, !.lenCer = last'.out.dim],
                           last'.rv)
           ELSE P7Goto([p7 EXCEPT !.ritorno = last'.rv, !.lenCer = last'.out.dim],
                       "GetCertificateML(certificato)")

\* ritorno = GetCertificateML(certificato, &lenCer, slot);
\* if (ritorno != C_OK) return(ritorno)
P7CertRead ==
  /\ p7.pc = "GetCertificateML(certificato)" /\ p7.calling
  /\ GetCertificateML
  /\ p7' = IF last'.rv # C_OK
             THEN P7Return([p7 EXCEPT !.ritorno = last'.rv, !.lenCer = last'.out.dim],
                           last'.rv)
           ELSE P7Goto([p7 EXCEPT !.ritorno = last'.rv, !.lenCer = last'.out.dim],
                       "SignDataML")

\* assert(bRes && ...); if (!bRes) risultato = C_GENERIC_ERROR: with
\* assertions compiled in, a failed SignDataML ends the process.
\* PKCS7SignML going on to write whatever SignDataML returned
P7Asserted_Ignored(f, bRes) == P7Goto(f, "MemWriteFile")

P7Asserted(f, bRes) ==
  IF bRes THEN P7Goto(f, "MemWriteFile")
  ELSE IF f.env.ndebug THEN P7Goto([f EXCEPT !.risultato = C_GENERIC_ERROR], "FinalizeML")
  ELSE P7Goto(f, "abort")

\* SignDataML up to its SignML call: it returns FALSE when the certificate
\* is not the DER structure it looks for (the parse is the environment's
\* certOk here); otherwise it calls SignML(wKid, Padded, RsaEncryption, slot)
\* with Padded the padded DigestInfo of the hash of the signed attributes.
P7SignData ==
  /\ p7.pc = "SignDataML" /\ ~p7.calling
  /\ IF p7.env.certOk
       THEN /\ last' = OpRequest("SignML call", 1, p7.slot,
                         [kx |-> p7.kid, toSign |-> Padding(Sha1Digest(p7.env.digest))],
                         [i \in 1 .. 128 |-> p7.env.junk], NoFault, p7.env.sign, p7.env.junk)
            /\ p7' = [p7 EXCEPT !.calling = TRUE]
       ELSE /\ last' = last
            /\ p7' = P7Asserted(p7, FALSE)
  /\ UNCHANGED <<prog, drv, bal, neg, efSize, files>>

\* if (SignML(...) != C_OK) return FALSE; the rest of SignDataML returns TRUE.
P7Signed ==
  /\ p7.pc = "SignDataML" /\ p7.calling
  /\ SignML
  /\ p7' = P7Asserted(p7, last'.rv = C_OK)

\* if (risultato == C_OK) risultato = MemWriteFile(szOutputFileName, ...) ?
\* C_OK : C_GENERIC_ERROR; MemWriteFile fails when it cannot open the file.
P7Write ==
  /\ p7.pc = "MemWriteFile"
  /\ IF p7.env.writeOk
       THEN /\ files' = files \cup {p7.out}
            /\ p7' = P7Goto([p7 EXCEPT !.risultato = C_OK], "FinalizeML")
       ELSE /\ files' = files
            /\ p7' = P7Goto([p7 EXCEPT !.risultato = C_GENERIC_ERROR], "FinalizeML")
  /\ UNCHANGED <<prog, drv, bal, neg, efSize, last>>

\* if (bInitialize && iInitRes == C_OK) ritorno = FinalizeML(slot);
\* return(risultato)
P7Finalize ==
  /\ p7.pc = "FinalizeML"
  /\ IF p7.bInitialize /\ p7.iInitRes = C_OK
       THEN /\ FinalizeML(1, p7.slot)
            /\ p7' = P7Return([p7 EXCEPT !.ritorno = last'.rv], p7.risultato)
       ELSE /\ p7' = P7Return(p7, p7.risultato)
            /\ UNCHANGED <<prog, drv, last>>
  /\ UNCHANGED aside

\* SMIMESignML after PKCS7SignML returned 0: the .p7m file is encoded and
\* Mime_Message_New writes the message to szOutputFilePath; it fails when
\* the file cannot be opened.
SMIMEOutput ==
  /\ p7.pc = "Mime_Message_New(output)"
  /\ IF p7.env.outOk
       THEN /\ files' = files \cup {p7.output}
            /\ p7' = [p7 EXCEPT !.iRv = 0, !.pc = "CleanUp"]
       ELSE /\ files' = files
            /\ p7' = [p7 EXCEPT !.iRv = C_GENERIC_ERROR, !.pc = "CleanUp"]
  /\ UNCHANGED <<prog, drv, bal, neg, efSize, last>>

\* CleanUp with the second unlink left out.
SMIMECleanUp_FirstOnly ==
  /\ p7.pc = "CleanUp"
  /\ files' = files \ {"tmp"}
  /\ p7' = [p7 EXCEPT !.pc = "returned"]
  /\ UNCHANGED <<prog, drv, bal, neg, efSize, last>>

\* CleanUp: unlink(strTempFile1); unlink(strTempFile1 + ".p7m"); return iRv
SMIMECleanUp ==
  /\ p7.pc = "CleanUp"
  /\ files' = files \ {"tmp", "tmp.p7m"}
  /\ p7' = [p7 EXCEPT !.pc = "returned"]
  /\ UNCHANGED <<prog, drv, bal, neg, efSize, last>>

\* ------------------------------------------------------------------ ASN.1 DER
\* asn1/Asn1Common.cpp, Asn1Type.cpp, Asn1Sequence.cpp, Asn1Tagged.cpp,
\* Asn1Integer.cpp, Asn1UTCTime.cpp.  An unsigned long is kept as the 32-bit
\* signed integer with the same bits, so (unsigned long)iData changes nothing.

TC_UNIVERSAL == 0
TC_APPLICATION == 64
TC_CONTEXT_SPECIFIC == 128
TC_PRIVATE == 192
TT_PRIMITIVE == 0
TT_CONSTRUCTED == 32
ASN1_INTEGER == 2
ASN1_SEQUENCE == 16
ASN1_UTCTIME == 23

\* (dwData >> lo) & (2^n - 1): the n bits of dwData from bit lo upwards
Bits(dwData, lo, n) == (dwData \div (2 ^ lo)) % (2 ^ n)

\* a | b on two bytes
RECURSIVE BitOr(_, _, _)
BitOr(a, b, n) ==
  IF n = 0 THEN 0
  ELSE (IF a % 2 = 1 \/ b % 2 = 1 THEN 1 ELSE 0) + 2 * BitOr(a \div 2, b \div 2, n - 1)

\* Asn1Common::PutDW: the bytes it stores, most significant first; the third
\* test reads b but does not set it
PutDW(dwData) ==
  LET b1 == Bits(dwData, 24, 8) # 0
      b2 == Bits(dwData, 16, 8) # 0 \/ b1
      b3 == Bits(dwData, 8, 8) # 0 \/ b2
  IN (IF b1 THEN <<Byte(dwData, 3)>> ELSE <<>>)
       \o (IF b2 THEN <<Byte(dwData, 2)>> ELSE <<>>)
       \o (IF b3 THEN <<Byte(dwData, 1)>> ELSE <<>>)
       \o <<Byte(dwData, 0)>>

DWLength(dwData) ==
  IF Bits(dwData, 24, 8) # 0 THEN 4
  ELSE IF Bits(dwData, 16, 8) # 0 THEN 3
  ELSE IF Bits(dwData, 8, 8) # 0 THEN 2
  ELSE 1

\* Asn1Common::PutPackedDW: groups of seven bits, 0x80 set on all but the last
PutPackedDW(dwData) ==
  LET g4 == Bits(Bits(dwData, 28, 8), 0, 7)
      g3 == Bits(Bits(dwData, 21, 8), 0, 7)
      g2 == Bits(Bits(dwData, 14, 8), 0, 7)
      g1 == Bits(Bits(dwData, 7, 8), 0, 7)
      b4 == g4 # 0
      b3 == g3 # 0 \/ b4
      b2 == g2 # 0 \/ b3
      b1 == g1 # 0 \/ b2
  IN (IF b4 THEN <<BitOr(128, g4, 8)>> ELSE <<>>)
       \o (IF b3 THEN <<BitOr(128, g3, 8)>> ELSE <<>>)
       \o (IF b2 THEN <<BitOr(128, g2, 8)>> ELSE <<>>)
       \o (IF b1 THEN <<BitOr(128, g1, 8)>> ELSE <<>>)
       \o <<Bits(dwData, 0, 7)>>

PackedDWLength(dwData) ==
  IF Bits(dwData, 28, 7) # 0 THEN 5
  ELSE IF Bits(dwData, 21, 7) # 0 THEN 4
  ELSE IF Bits(dwData, 14, 7) # 0 THEN 3
  ELSE IF Bits(dwData, 7, 7) # 0 THEN 2
  ELSE 1

\* the tests of PutSignedDW and SignedDWLength for the byte above bit lo + 1:
\* ((dwData & FF<<(lo+1)) && ((dwData & 1FF<<lo) ^ 1FF<<lo)) || !((dwData & 1FF<<lo) ^ 1<<lo)
SignedNeeds(dwData, lo) ==
  \/ Bits(dwData, lo + 1, 8) # 0 /\ Bits(dwData, lo, 9) # 511
  \/ Bits(dwData, lo, 9) = 1

\* the length an unsigned count would need: the sign bit of the top byte ignored
SignedDWLength_Unsigned(dwData) == DWLength(dwData)

SignedDWLength(dwData) ==
  IF SignedNeeds(dwData, 23) THEN 4
  ELSE IF SignedNeeds(dwData, 15) THEN 3
  ELSE IF SignedNeeds(dwData, 7) THEN 2
  ELSE 1

\* Asn1Common::PutSignedDW: the third test reads b but does not set it
PutSignedDW(dwData) ==
  LET b1 == SignedNeeds(dwData, 23)
      b2 == SignedNeeds(dwData, 15) \/ b1
      b3 == SignedNeeds(dwData, 7) \/ b2
  IN (IF b1 THEN <<Byte(dwData, 3)>> ELSE <<>>)
       \o (IF b2 THEN <<Byte(dwData, 2)>> ELSE <<>>)
       \o (IF b3 THEN <<Byte(dwData, 1)>> ELSE <<>>)
       \o <<Byte(dwData, 0)>>

\* a CAsn1Type object: the members of the base class, the kind of its subclass,
\* and the subclass's data (m_pbData or m_chData: the content bytes, none when
\* the content is left open; m_rgData: the sequence's children; m_pData: the
\* tagged wrapper's inner object), the objects named by their place in the heap
Asn1Object(kind, bClass, dwTag, cbData, bConstructed, pbData) ==
  [kind |-> kind, m_bClass |-> bClass, m_dwTag |-> dwTag,
   m_dwEncodedDataLength |-> cbData, m_bConstructed |-> bConstructed,
   m_bImplicit |-> FALSE, m_pbData |-> pbData, m_rgData |-> <<>>, m_pData |-> 0]

\* CAsn1Type::GetEncodedLength
GetEncodedLength(n) ==
  IF n.m_bImplicit THEN n.m_dwEncodedDataLength
  ELSE (IF n.m_dwTag < 31 THEN 1 ELSE PackedDWLength(n.m_dwTag)) + 1
         + (IF Bits(n.m_dwEncodedDataLength, 7, 25) # 0
              THEN DWLength(n.m_dwEncodedDataLength) ELSE 0)
         + n.m_dwEncodedDataLength

\* CAsn1Type::PutHeader: the bytes it stores
PutHeader(n) ==
  LET tag == (IF Bits(n.m_dwTag, 5, 27) # 0 THEN <<31>> ELSE <<>>) \o PutPackedDW(n.m_dwTag)
      first == BitOr(tag[1], BitOr(n.m_bClass,
                 IF n.m_bConstructed THEN TT_CONSTRUCTED ELSE TT_PRIMITIVE, 8), 8)
  IN <<first>> \o Tail(tag)
       \o (IF Bits(n.m_dwEncodedDataLength, 7, 25) # 0
             THEN <<128 + DWLength(n.m_dwEncodedDataLength)>> ELSE <<>>)
       \o PutDW(n.m_dwEncodedDataLength)

\* one store into the destination buffer: cb bytes at offset at
Stored(at, cb, bytes) == [at |-> at, cb |-> cb, bytes |-> bytes]

\* CAsn1Type::GetEncoded with the PutData of each subclass: the stores made
\* through pbDest, in order, and the value returned
RECURSIVE GetEncoded(_, _, _)
RECURSIVE PutData(_, _, _)
RECURSIVE PutChildren(_, _, _, _)
GetEncoded(heap, i, at) ==
  IF heap[i].m_bImplicit THEN PutData(heap, i, at)
  ELSE LET h == PutHeader(heap[i])
           data == PutData(heap, i, at + Len(h))
       IN [buf |-> <<Stored(at, Len(h), h)>> \o data.buf, retval |-> data.retval]

PutData(heap, i, at) ==
  IF heap[i].kind = "sequence" THEN PutChildren(heap, heap[i].m_rgData, 1, at)
  ELSE IF heap[i].kind = "tagged" THEN GetEncoded(heap, heap[i].m_pData, at)
  ELSE [buf |-> <<Stored(at, heap[i].m_dwEncodedDataLength, heap[i].m_pbData)>>,
        retval |-> TRUE]

\* CAsn1Sequence::PutData from child k on
PutChildren(heap, rgData, k, at) ==
  IF k > Len(rgData) THEN [buf |-> <<>>, retval |-> TRUE]
  ELSE LET c == GetEncoded(heap, rgData[k], at)
       IN IF c.retval
            THEN LET rest == PutChildren(heap, rgData, k + 1,
                                         at + GetEncodedLength(heap[rgData[k]]))
                 IN [buf |-> c.buf \o rest.buf, retval |-> rest.retval]
            ELSE [buf |-> c.buf, retval |-> FALSE]

\* the objects an object reaches through m_rgData and m_pData, itself included
RECURSIVE Reaches(_, _)
Reaches(heap, i) ==
  {i} \cup UNION {Reaches(heap, heap[i].m_rgData[k]) : k \in 1 .. Len(heap[i].m_rgData)}
      \cup (IF heap[i].m_pData = 0 THEN {} ELSE Reaches(heap, heap[i].m_pData))

\* a construction step leaves the rest of the program alone
Constructed(op, req, heap) ==
  /\ asn' = [asn EXCEPT !.heap = heap]
  /\ last' = [NoCall EXCEPT !.op = op, !.req = req]
  /\ UNCHANGED <<prog, drv, aside, p7>>

\* CAsn1Integer::CAsn1Integer(int iData)
CAsn1Integer(iData) ==
  /\ Len(asn.heap) < MaxObjects
  /\ Constructed("CAsn1Integer", [iData |-> iData],
       Append(asn.heap, Asn1Object("integer", TC_UNIVERSAL, ASN1_INTEGER,
                                   SignedDWLength(iData), FALSE, PutSignedDW(iData))))

\* the table d of CAsn1UTCTime: two characters for each index, entry 55 as written
d(i) == IF i = 55 THEN <<49, 53>> ELSE <<48 + (i \div 10), 48 + (i % 10)>>

\* CAsn1UTCTime::CAsn1UTCTime
CAsn1UTCTime(wYear, wMonth, wDay, wHour, wMinute, wSecond) ==
  /\ Len(asn.heap) < MaxObjects
  /\ Constructed("CAsn1UTCTime",
       [wYear |-> wYear, wMonth |-> wMonth, wDay |-> wDay,
        wHour |-> wHour, wMinute |-> wMinute, wSecond |-> wSecond],
       Append(asn.heap, Asn1Object("utctime", TC_UNIVERSAL, ASN1_UTCTIME, 13, FALSE,
         d(wYear % 100)
           \o (IF wMonth % 12 = 0 THEN d(12) ELSE d(wMonth % 12))
           \o (IF wDay % 31 = 0 THEN d(31) ELSE d(wDay % 31))
           \o d(wHour % 24) \o d(wMinute % 60) \o d(wSecond % 60) \o <<90>>)))

\* CAsn1Sequence::CAsn1Sequence
CAsn1Sequence ==
  /\ Len(asn.heap) < MaxObjects
  /\ Constructed("CAsn1Sequence", <<>>,
       Append(asn.heap, Asn1Object("sequence", TC_UNIVERSAL, ASN1_SEQUENCE, 0, TRUE, <<>>)))

\* the sum of the encoded lengths the children report now
RECURSIVE SumOfLengths(_, _)
SumOfLengths(heap, rgData) ==
  IF rgData = <<>> THEN 0
  ELSE GetEncodedLength(heap[Head(rgData)]) + SumOfLengths(heap, Tail(rgData))

\* CAsn1Sequence::Add: the object appended, the lengths of the children added up
AddTo(heap, s, pData) ==
  LET rg == Append(heap[s].m_rgData, pData)
  IN [heap EXCEPT ![s] = [@ EXCEPT !.m_rgData = rg,
                                   !.m_dwEncodedDataLength = SumOfLengths(heap, rg)]]

Add(s, pData) ==
  /\ s \in DOMAIN asn.heap /\ pData \in DOMAIN asn.heap
  /\ asn.heap[s].kind = "sequence"
  /\ Len(asn.heap[s].m_rgData) < MaxFill
  /\ s \notin Reaches(asn.heap, pData)
  /\ Constructed("Add", [s |-> s, pData |-> pData], AddTo(asn.heap, s, pData))

\* CAsn1Type::SetImplicit
SetImplicit(i) ==
  /\ i \in DOMAIN asn.heap
  /\ Constructed("SetImplicit", [i |-> i], [asn.heap EXCEPT ![i].m_bImplicit = TRUE])

\* CAsn1Tagged::CAsn1Tagged
CAsn1Tagged(pData, dwTag) ==
  /\ Len(asn.heap) < MaxObjects
  /\ pData \in DOMAIN asn.heap
  /\ Constructed("CAsn1Tagged", [pData |-> pData, dwTag |-> dwTag],
       Append(asn.heap,
         [Asn1Object("tagged", TC_CONTEXT_SPECIFIC, dwTag,
                     GetEncodedLength(asn.heap[pData]),
                     IF asn.heap[pData].m_bImplicit THEN asn.heap[pData].m_bConstructed
                     ELSE TRUE, <<>>)
            EXCEPT !.m_pData = pData]))

\* the caller's cb = X.GetEncodedLength(); pb = new BYTE[cb]; X.GetEncoded(pb)
Encode(i) ==
  /\ i \in DOMAIN asn.heap
  /\ LET r == GetEncoded(asn.heap, i, 0)
     IN asn' = [asn EXCEPT !.root = i, !.cb = GetEncodedLength(asn.heap[i]),
                           !.buf = r.buf, !.retval = r.retval]
  /\ UNCHANGED <<prog, drv, aside, p7, last>>

\* The history of begin and end calls, kept beside the program's own counter.
NoteBegin(t, nSlot) ==
  /\ bal[t][nSlot] < MaxDepth
  /\ bal' = [bal EXCEPT ![t][nSlot] = @ + 1]
  /\ UNCHANGED neg

NoteEnd(t, nSlot) ==
  /\ bal[t][nSlot] > -MaxDepth
  /\ bal' = [bal EXCEPT ![t][nSlot] = @ - 1]
  /\ neg' = [neg EXCEPT ![t][nSlot] = @ \/ bal[t][nSlot] - 1 < 0]

\* ---------------------------------------------------------- specifications

\* The state Initialize(0) leaves when it succeeds on a fresh library.
Connected ==
  /\ hContext = 1
  /\ hCards = [s \in Slots |-> IF s = 0 THEN 1 ELSE 0]
  /\ hCardsTransactions = [s \in Slots |-> 0]
  /\ initialized = TRUE
  /\ instances = 1
  /\ defSlot = 0
  /\ drvCtx = 1
  /\ drvConn = [s \in Slots |-> s = 0]
  /\ drvLock = [s \in Slots |-> FALSE]
  /\ bal = [t \in Callers |-> [s \in Slots |-> 0]]
  /\ neg = [t \in Callers |-> [s \in Slots |-> FALSE]]

InitConnected ==
  /\ Connected
  /\ efSize = 0
  /\ files = {}
  /\ p7 = NoSigning
  /\ asn = NoObjects
  /\ last = Call("Initialize", 1, 0, C_OK, 0,
                 <<Drv("SCardEstablishContext", 0, TRUE, FALSE),
                   Drv("SCardConnect", 1, TRUE, FALSE)>>)

\* The library as one caller drives it, call after call.
Next ==
  \E nSlot \in Slots :
    \/ Initialize(1, nSlot) /\ UNCHANGED <<aside, p7, asn>>
    \/ FinalizeML(1, nSlot) /\ UNCHANGED <<aside, p7, asn>>
    \/ BeginTransactionML(1, nSlot) /\ UNCHANGED <<aside, p7, asn>>
    \/ EndTransactionML(1, nSlot) /\ UNCHANGED <<aside, p7, asn>>
    \/ SendAPDU(1, nSlot, {ReadCounter}, {<<144, 0>>, <<0, 0, 0, 7, 144, 0>>}, MaxTxSession)
         /\ UNCHANGED <<aside, p7, asn>>

Spec == Init /\ [][Next]_vars

\* Begin and end calls in any order on a connected and on an empty slot, with
\* their history.
NextTx ==
  \E nSlot \in Slots :
    \/ BeginTransactionML(1, nSlot) /\ NoteBegin(1, nSlot) /\ UNCHANGED <<efSize, files, p7, asn>>
    \/ EndTransactionML(1, nSlot) /\ NoteEnd(1, nSlot) /\ UNCHANGED <<efSize, files, p7, asn>>

SpecTx == InitConnected /\ [][NextTx]_vars

\* The transport under every driver behaviour, at every transaction depth.
NextAPDU ==
  \E nSlot \in Slots :
    \/ BeginTransactionML(1, nSlot) /\ UNCHANGED <<aside, p7, asn>>
    \/ EndTransactionML(1, nSlot) /\ UNCHANGED <<aside, p7, asn>>
    \/ SendAPDU(1, nSlot, ApduCalls, Responses, MaxTx) /\ UNCHANGED <<aside, p7, asn>>

SpecAPDU == InitConnected /\ [][NextAPDU]_vars

\* Two threads of one process on the same library.  Each call runs to its
\* return before the next one starts (the coarsest interleaving the threads
\* can have); a thread ends only transactions it has begun.
NextMT ==
  \E t \in Callers, nSlot \in Slots :
    \/ BeginTransactionML(t, nSlot) /\ NoteBegin(t, nSlot) /\ UNCHANGED <<efSize, files, p7, asn>>
    \/ /\ bal[t][nSlot] > 0
       /\ EndTransactionML(t, nSlot) /\ NoteEnd(t, nSlot) /\ UNCHANGED <<efSize, files, p7, asn>>
    \/ SendAPDU(t, nSlot, {ReadCounter}, {<<0, 0, 0, 7, 144, 0>>}, MaxTxSession)
         /\ UNCHANGED <<aside, p7, asn>>

SpecMT == InitConnected /\ [][NextMT]_vars

\* ReadBinaryML on a card file, one call per behaviour: file sizes, offsets
\* and lengths below, at and above the exchange size, with and without a
\* transport fault on one of its APDUs (the faults are tried with one status
\* at the end of the file and one content of tmpBuffer).
Around(k) == {k * EXCHANGE_BUFFER - 1, k * EXCHANGE_BUFFER, k * EXCHANGE_BUFFER + 20}
ReadLens == {0, 20} \cup UNION {Around(k) : k \in 1 .. MaxChunks}
EFSizes == {10} \cup UNION {Around(k) : k \in 1 .. MaxChunks}
ReadOffsets == {0, 5, EXCHANGE_BUFFER}
Faults ==
  {NoFault} \cup
  {[at |-> k, script |-> sc] : k \in 1 .. MaxChunks + 1, sc \in Scripts(1, MaxTxSession)}
EofSWs == {SW_WRONG_LENGTH, \H6B00}
JunkBytes == {0, 170}

\* The requests tried: on the empty slot the driver refuses the handle.
Requests ==
  {Request(1, 0, Offset, N, fault, eofSW, junk) :
     Offset \in ReadOffsets, N \in ReadLens, fault \in Faults \ {NoFault},
     eofSW \in {SW_WRONG_LENGTH}, junk \in {0}}
  \cup {Request(1, 0, Offset, N, NoFault, eofSW, junk) :
          Offset \in ReadOffsets, N \in ReadLens, eofSW \in EofSWs, junk \in JunkBytes}
  \cup {Request(1, nSlot, 0, N, [at |-> 1, script |-> <<Attempt("other", TRUE, TRUE)>>],
                SW_WRONG_LENGTH, 0) :
          nSlot \in Slots \ {0}, N \in ReadLens}

InitRB ==
  /\ Connected
  /\ efSize \in EFSizes
  /\ files = {}
  /\ p7 = NoSigning
  /\ asn = NoObjects
  /\ last \in Requests

NextRB == ReadBinaryML /\ UNCHANGED <<p7, asn>>

SpecRB == InitRB /\ [][NextRB]_vars

\* SendAPDUML as a function of Le and of the response: every Le from 0 to
\* above the payload, with and without an output buffer, status-only
\* responses and responses with a payload, the driver resetting the card
\* MaxTx - 1 times at most.  A call with pLe NULL and an output buffer reads
\* *pLe through the null pointer and is left out.
LeValues == {0, 2, 4, 8}
Payloads == Responses \cup {<<17, 34, 51, 68, 144, 0>>}
SendRequests ==
  {SendRequest(1, 0, APDU_READ_COUNTER, 0, pLe, <<>>, FALSE, [i \in 1 .. 8 |-> 0], script, resp) :
     pLe \in LeValues, script \in Scripts(0, MaxTx), resp \in Payloads}
  \cup {SendRequest(1, 0, APDU_READ_COUNTER, 0, pLe, <<>>, TRUE, <<>>, script, resp) :
          pLe \in LeValues \cup {NoLe}, script \in Scripts(0, MaxTx), resp \in Payloads}

InitLe ==
  /\ Connected
  /\ efSize = 0
  /\ files = {}
  /\ p7 = NoSigning
  /\ asn = NoObjects
  /\ last \in SendRequests

NextLe == SendAPDUMLCall /\ UNCHANGED <<p7, asn>>

SpecLe == InitLe /\ [][NextLe]_vars

\* VerifyPINML, one call per behaviour: PINs shorter than, of and longer than
\* 8 characters and the empty PIN, every status word of PinSWs on each of its
\* APDUs, and a transport fault on one of them under two card behaviours.
Pins == {<<>>, <<49, 50, 51, 52>>, <<49, 50, 51, 52, 53, 54, 55, 56>>,
         <<49, 50, 51, 52, 53, 54, 55, 56, 57, 48>>}
PinSWs == {SW_OK, \H6700, SW_AUTH_FAILED, \H63C2, \H6983}
OpFaults ==
  {[at |-> k, script |-> sc] : k \in 1 .. MaxAPDUs, sc \in Scripts(1, MaxTxSession)}
VerifyRequests ==
  {VerifyRequest(1, 0, nPIN, pin, NoFault, sws) :
     nPIN \in {1, 2}, pin \in Pins, sws \in [1 .. 3 -> PinSWs]}
  \cup {VerifyRequest(1, 0, 1, pin, fault, sws) :
          pin \in {<<49, 50, 51, 52>>}, fault \in OpFaults,
          sws \in {<<\H6700, SW_AUTH_FAILED, \H63C2>>, <<SW_OK, SW_OK, SW_OK>>}}

InitPIN ==
  /\ Connected
  /\ efSize = 0
  /\ files = {}
  /\ p7 = NoSigning
  /\ asn = NoObjects
  /\ last \in VerifyRequests

NextPIN == VerifyPINML /\ UNCHANGED <<p7, asn>>

SpecPIN == InitPIN /\ [][NextPIN]_vars

\* The counter, seal and signature operations, one call per behaviour: a
\* status word other than 9000 on any one APDU of the operation or on none,
\* and, with the card answering 9000 throughout, a transport fault on any
\* one APDU.
FailSWs == {\H6A82, \H6982}
Answers(data) ==
  {[failAt |-> k, failSW |-> sw, data |-> data] : k \in 0 .. MaxAPDUs, sw \in FailSWs}
Ok(data) == [failAt |-> 0, failSW |-> \H6A82, data |-> data]
CounterData == {<<0, 0, 1, 44>>, <<255, 0, 0, 7>>, <<1, 2>>}
SealData == {<<0, 0, 1, 44, 161, 162, 163, 164, 165, 166, 167, 168>>}
SealArgs ==
  {[Data_Ora |-> <<32, 38, 17, 1, 18, 48, 0, 0>>, Prezzo |-> p,
    SN |-> <<1, 2, 3, 4, 5, 6, 7, 8>>] : p \in {1250, 16909060}}
SealOut == [cnt |-> 0, mac |-> <<0, 0, 0, 0, 0, 0, 0, 0>>]
SignData == {[i \in 1 .. 128 |-> 90]}
SignArgs == {[kx |-> kx, toSign |-> [i \in 1 .. 128 |-> 60]] : kx \in {129, 300}}
SignedBuf == [i \in 1 .. 128 |-> 0]
OpRequestsOf(op, argss, out, datas) ==
  {OpRequest(op, 1, 0, args, out, NoFault, ans, junk) :
     args \in argss, ans \in UNION {Answers(dt) : dt \in datas}, junk \in JunkBytes}
  \cup {OpRequest(op, 1, 0, args, out, fault, Ok(dt), 170) :
          args \in argss, fault \in OpFaults, dt \in datas}
OpRequests ==
  OpRequestsOf("ReadCounterML call", {<<>>}, 0, CounterData)
  \cup OpRequestsOf("ReadBalanceML call", {<<>>}, 0, CounterData)
  \cup OpRequestsOf("ComputeSigilloML call", SealArgs, SealOut, SealData)
  \cup OpRequestsOf("SignML call", SignArgs, SignedBuf, SignData)

InitOps ==
  /\ Connected
  /\ efSize = 0
  /\ files = {}
  /\ p7 = NoSigning
  /\ asn = NoObjects
  /\ last \in OpRequests

NextOps ==
  \/ ReadCounterML /\ UNCHANGED <<p7, asn>>
  \/ ReadBalanceML /\ UNCHANGED <<p7, asn>>
  \/ ComputeSigilloML /\ UNCHANGED <<p7, asn>>
  \/ SignML /\ UNCHANGED <<p7, asn>>

SpecOps == InitOps /\ [][NextOps]_vars

\* PKCS7SignML and SMIMESignML, one call per behaviour, on a library that is
\* loaded and not initialized or that is connected to the card in slot 0.
\* The card and the file system do everything right (SigningOk) or fail in
\* one place: a SELECT, the PIN, the key records, the certificate file, one
\* APDU of SignML, a file that cannot be opened.  The certificate file holds
\* its length in its first two bytes, low byte first, and CertFileSize bytes
\* in all when it is whole.
Loaded ==
  /\ hContext = 0
  /\ hCards = [s \in Slots |-> 0]
  /\ hCardsTransactions = [s \in Slots |-> 0]
  /\ initialized = FALSE
  /\ instances = 0
  /\ defSlot = -1
  /\ drvCtx = 0
  /\ drvConn = [s \in Slots |-> FALSE]
  /\ drvLock = [s \in Slots |-> FALSE]
  /\ bal = [t \in Callers |-> [s \in Slots |-> 0]]
  /\ neg = [t \in Callers |-> [s \in Slots |-> FALSE]]

CertFileSize == 2 + FileByte(1) * 256 + FileByte(0)
NoFailure == [failAt |-> 0, failSW |-> \H6A82, data |-> <<>>]
ActiveKey2 == [failAt |-> 0, failSW |-> \H6A82, data |-> <<0, 1>>]
SigningOk ==
  [tmpOk |-> TRUE, sel |-> <<NoFailure, NoFailure>>, sws |-> <<SW_OK, SW_OK, SW_OK>>,
   key |-> ActiveKey2, cert |-> ActiveKey2, eofSW |-> SW_WRONG_LENGTH, certOk |-> TRUE,
   digest |-> [i \in 1 .. 20 |-> 60], sign |-> Ok([i \in 1 .. 128 |-> 90]),
   writeOk |-> TRUE, outOk |-> TRUE, ndebug |-> TRUE, junk |-> 170]
SigningEnvs ==
  {SigningOk}
  \cup {[SigningOk EXCEPT !.tmpOk = FALSE], [SigningOk EXCEPT !.writeOk = FALSE],
        [SigningOk EXCEPT !.outOk = FALSE], [SigningOk EXCEPT !.certOk = FALSE],
        [SigningOk EXCEPT !.certOk = FALSE, !.ndebug = FALSE]}
  \cup {[SigningOk EXCEPT !.sel[i].failAt = 1] : i \in 1 .. 2}
  \cup {[SigningOk EXCEPT !.sws = sws] :
          sws \in {<<\H6983, SW_OK, SW_OK>>, <<SW_AUTH_FAILED, \H63C2, SW_OK>>}}
  \cup {[SigningOk EXCEPT !.key.failAt = k, !.key.failSW = sw] :
          k \in {1, 4}, sw \in FailSWs}
  \cup {[SigningOk EXCEPT !.key.data = <<0, 0>>]}
  \cup {[SigningOk EXCEPT !.cert.failAt = k, !.cert.failSW = sw] :
          k \in {2, 6}, sw \in FailSWs}
  \cup {[SigningOk EXCEPT !.sign.failAt = k, !.sign.failSW = \H6982] : k \in 1 .. MaxAPDUs}
  \cup {[SigningOk EXCEPT !.sign.failAt = 6, !.sign.failSW = \H6A82,
                          !.ndebug = FALSE]}
Signings ==
  {Signing(fn, 0, bInitialize, <<49, 50, 51, 52>>, "out", env) :
     fn \in {"PKCS7SignML", "SMIMESignML"}, bInitialize \in BOOLEAN, env \in SigningEnvs}

InitP7 ==
  /\ Loaded \/ Connected
  /\ p7 \in Signings
  /\ ~initialized => p7.bInitialize
  /\ p7.fn = "PKCS7SignML" => p7.env.tmpOk /\ p7.env.outOk
  /\ efSize \in IF p7.env = SigningOk THEN {CertFileSize, 1000, 1} ELSE {CertFileSize}
  /\ files \in IF p7.fn = "PKCS7SignML" /\ p7.env = SigningOk THEN {{"in"}, {}} ELSE {{"in"}}
  /\ asn = NoObjects
  /\ last = NoCall

NextP7 ==
  \/ SMIMEMessage /\ UNCHANGED asn
  \/ P7Open /\ UNCHANGED asn
  \/ P7Initialize /\ UNCHANGED asn
  \/ P7Call /\ UNCHANGED asn
  \/ P7Selected /\ UNCHANGED asn
  \/ P7Verified /\ UNCHANGED asn
  \/ P7KeyFound /\ UNCHANGED asn
  \/ P7CertSized /\ UNCHANGED asn
  \/ P7CertRead /\ UNCHANGED asn
  \/ P7SignData /\ UNCHANGED asn
  \/ P7Signed /\ UNCHANGED asn
  \/ P7Write /\ UNCHANGED asn
  \/ P7Finalize /\ UNCHANGED asn
  \/ SMIMEOutput /\ UNCHANGED asn
  \/ SMIMECleanUp /\ UNCHANGED asn

SpecP7 == InitP7 /\ [][NextP7]_vars

\* ---- ASN.1: one object of any class, tag and content length, encoded
DerClasses == {TC_UNIVERSAL, TC_APPLICATION, TC_CONTEXT_SPECIFIC, TC_PRIVATE}
DerTags == {0, 2, 16, 30, 31, 32, 127, 128, 16383, 16384, 2097151, 2097152,
            268435455, 268435456}
DerLengths == {0, 1, 127, 128, 255, 256, 65535, 65536, 16777215, 16777216}
DerObjects ==
  {Asn1Object("raw", c, t, cb, k, <<>>) :
     c \in DerClasses, t \in DerTags, cb \in DerLengths, k \in BOOLEAN}

NoAsn1Yet ==
  /\ Loaded
  /\ efSize = 0
  /\ files = {}
  /\ p7 = NoSigning
  /\ last = NoCall

InitDER ==
  /\ NoAsn1Yet
  /\ asn \in {[NoObjects EXCEPT !.heap = <<n>>] : n \in DerObjects}

NextDER ==
  \/ SetImplicit(1)
  \/ Encode(1)

SpecDER == InitDER /\ [][NextDER]_vars

\* ---- ASN.1: trees built from integers, sequences and tagged wrappers
InitTree ==
  /\ NoAsn1Yet
  /\ asn = NoObjects

NextTree ==
  \/ \E iData \in {0, 128} : CAsn1Integer(iData)
  \/ CAsn1Sequence
  \/ \E s \in 1 .. MaxObjects, pData \in 1 .. MaxObjects : Add(s, pData)
  \/ \E i \in 1 .. MaxObjects : SetImplicit(i)
  \/ \E pData \in 1 .. MaxObjects : CAsn1Tagged(pData, 0)
  \/ \E i \in 1 .. MaxObjects : Encode(i)

SpecTree == InitTree /\ [][NextTree]_vars

\* ---- ASN.1: one INTEGER built from an int, encoded
\* the int values tried: the small ones, and every mix of the bytes 00, 7F, 80
\* and FF under a top byte of 80, FF, 00 or 7F
IntValues ==
  ((0 - 300) .. 300)
    \cup {((b3 * 256 + b2) * 256 + b1) * 256 + b0 :
            b3 \in {0 - 128, 0 - 1, 0, 127}, b2 \in {0, 127, 128, 255},
            b1 \in {0, 127, 128, 255}, b0 \in {0, 127, 128, 255}}

NextInt ==
  \/ asn.heap = <<>> /\ \E iData \in IntValues : CAsn1Integer(iData)
  \/ Encode(1)

SpecInt == InitTree /\ [][NextInt]_vars

\* ---- ASN.1: one UTCTime built from a date and time, encoded
\* each field over its whole range, the others on a fixed date and time
TimeInputs ==
  {<<y, 12, 31, 23, 59, 58>> : y \in 1950 .. 2049}
    \cup {<<2026, mo, 1, 0, 0, 0>> : mo \in 1 .. 12}
    \cup {<<2026, 1, dy, 0, 0, 0>> : dy \in 1 .. 31}
    \cup {<<2026, 1, 1, h, 0, 0>> : h \in 0 .. 23}
    \cup {<<2026, 1, 1, 0, mi, 0>> : mi \in 0 .. 59}
    \cup {<<2026, 1, 1, 0, 0, sc>> : sc \in 0 .. 59}

NextTime ==
  \/ /\ asn.heap = <<>>
     /\ \E t \in TimeInputs : CAsn1UTCTime(t[1], t[2], t[3], t[4], t[5], t[6])
  \/ Encode(1)

SpecTime == InitTree /\ [][NextTime]_vars

\* ---- card operations called on a slot that is not connected: the library
\* not initialized, or initialized through the other slot; SCardTransmit
\* refuses the empty handle
Refused == [at |-> 1, script |-> <<Attempt("other", TRUE, TRUE)>>]

SlotRequests ==
  {[r EXCEPT !.s = nSlot, !.req.fault = Refused] :
     nSlot \in Slots,
     r \in {q \in Requests \cup VerifyRequests \cup OpRequests : q.req.fault = NoFault}
            \cup {OpRequest("SelectML call", 1, 0, [fid |-> fid], <<>>, NoFault,
                            Ok(<<>>), 0) :
                    fid \in {FID_MF, FID_SIAE_APP_DOMAIN, FID_EF_CNT}}}

InitSlot ==
  /\ Loaded \/ Connected
  /\ efSize = 0
  /\ files = {}
  /\ p7 = NoSigning
  /\ asn = NoObjects
  /\ last \in SlotRequests
  /\ hCards[last.s] = 0

NextSlot ==
  \/ SelectMLCall /\ UNCHANGED <<p7, asn>>
  \/ ReadBinaryML /\ UNCHANGED <<p7, asn>>
  \/ VerifyPINML /\ UNCHANGED <<p7, asn>>
  \/ ReadCounterML /\ UNCHANGED <<p7, asn>>
  \/ ReadBalanceML /\ UNCHANGED <<p7, asn>>
  \/ ComputeSigilloML /\ UNCHANGED <<p7, asn>>
  \/ SignML /\ UNCHANGED <<p7, asn>>

SpecSlot == InitSlot /\ [][NextSlot]_vars

\* ---------------------------------------------- GetSNML / ComputeSigilloExML

FID_EF_GDO == 12034  \* 0x2F02

\* GetSNML after ReadBinaryML(0, ef_gdo, &l, nSlot) with l = 26: a failure
\* sets rv = C_GENERIC_ERROR and goes to CleanUp; otherwise
\* memcpy(serial, &ef_gdo[18], 8), where ef_gdo is not initialized and holds
\* the bytes that were read.
SerialRead(r, b, junk) ==
  IF b.rv # C_OK THEN GenericError(AfterRead(r, b))
  ELSE [AfterRead(r, b) EXCEPT
          !.out = [i \in 1 .. 8 |-> IF 18 + i <= b.Len THEN b.Buffer[18 + i] ELSE junk]]

\* if (ReadBinaryML(0, ef_gdo, &l, nSlot) != C_OK) ...
GdoRead(h, depth, S, eofSW, junk, fault, r) ==
  IF r.goto THEN r
  ELSE SerialRead(r, ReadBinaryIn(h, depth, S, eofSW, junk, fault, r, 0, 26), junk)

\* GetSNML between BeginTransactionML and EndTransactionML: a failing
\* SelectML of 3F00 or of 2F02 sets rv = C_FILE_NOT_FOUND and goes to CleanUp.
GetSN(h, depth, lock, S, eofSW, junk, fault, ans, serial) ==
  GdoRead(h, depth, S, eofSW, junk, fault,
    FileWalk(h, depth, fault, ans, <<FID_MF, FID_EF_GDO>>, 1,
             OpLocals(lock, 0, <<>>, serial)))

\* CleanUp: EndTransactionML(nSlot); return C_OK;
SNReturn(r) == [r EXCEPT !.rv = C_OK]

\* A caller's GetSNML or ComputeSigilloExML request, with what the
\* environment will do to it: the card answers READ BINARY from its file and
\* with eofSW at the end of it.
SNRequest(op, t, nSlot, args, out, fault, ans, junk, eofSW) ==
  [Call(op, t, nSlot, C_OK, 0, <<>>) EXCEPT
     !.out = out,
     !.req = [args |-> args, fault |-> fault, ans |-> ans, junk |-> junk, eofSW |-> eofSW]]

\* The GetSNML call under way, from entry to return.
GetSNML ==
  /\ last.op = "GetSNML call"
  /\ IF ~initialized THEN NotInitialized("GetSNML")
     ELSE \E beginOk \in BOOLEAN, endOk \in BOOLEAN :
             /\ DriverLocks(last.s, beginOk, endOk)
             /\ DriverAccepts(last.s, ScriptFor(last.req.fault, 1))
             /\ OpReturnOut("GetSNML", last.s, hCardsTransactions[last.s], beginOk, endOk,
                  SNReturn(
                    GetSN(hCards[last.s], hCardsTransactions[last.s] + 1,
                          LockAfterBegin(last.s, hCardsTransactions[last.s], beginOk),
                          efSize, last.req.eofSW, last.req.junk, last.req.fault,
                          last.req.ans, last.out)))
  /\ UNCHANGED <<prog, drvCtx, drvConn, aside>>

\* What the card answers to the APDUs of an operation that starts when n
\* APDUs of its caller were sent.
AnswersFrom(ans, n) == [ans EXCEPT !.failAt = IF @ > n THEN @ - n ELSE 0]

\* The locals of ComputeSigilloExML after the ComputeSigilloML call c that
\* followed the GetSNML call g.
SealAfterSN(g, c) ==
  [c EXCEPT !.log = g.log \o @, !.sent = g.sent \o @, !.n = g.n + @]

\* rv = GetSNML(sn, nSlot); if (rv != C_OK) goto CleanUp;
\* rv = ComputeSigilloML(Data_Ora, Prezzo, sn, mac, cnt, nSlot);
SealOfSN(h, depth, junk, fault, ans, Data_Ora, Prezzo, out, g) ==
  IF g.rv # C_OK THEN [g EXCEPT !.out = out, !.goto = TRUE]
  ELSE SealAfterSN(g,
         ComputeSigillo(h, depth + 1, g.lock, FaultFrom(fault, g.n), AnswersFrom(ans, g.n),
                        junk, Data_Ora, Prezzo, g.out, out))

\* ComputeSigilloExML between its BeginTransactionML and its
\* EndTransactionML; GetSNML and ComputeSigilloML are one level deeper, and
\* sn is not initialized.
ComputeSigilloEx(h, depth, lock, S, eofSW, junk, fault, ans, Data_Ora, Prezzo, out) ==
  SealOfSN(h, depth, junk, fault, ans, Data_Ora, Prezzo, out,
    SNReturn(GetSN(h, depth + 1, lock, S, eofSW, junk, fault, ans,
                   [i \in 1 .. 8 |-> junk])))

\* The ComputeSigilloExML call under way, from entry to return.
ComputeSigilloExML ==
  /\ last.op = "ComputeSigilloExML call"
  /\ IF ~initialized THEN NotInitialized("ComputeSigilloExML")
     ELSE \E beginOk \in BOOLEAN, endOk \in BOOLEAN :
             /\ DriverLocks(last.s, beginOk, endOk)
             /\ DriverAccepts(last.s, ScriptFor(last.req.fault, 1))
             /\ OpReturnOut("ComputeSigilloExML", last.s, hCardsTransactions[last.s],
                  beginOk, endOk,
                  ComputeSigilloEx(hCards[last.s], hCardsTransactions[last.s] + 1,
                                   LockAfterBegin(last.s, hCardsTransactions[last.s], beginOk),
                                   efSize, last.req.eofSW, last.req.junk, last.req.fault,
                                   last.req.ans, last.req.args.Data_Ora,
                                   last.req.args.Prezzo, last.out))
  /\ UNCHANGED <<prog, drvCtx, drvConn, aside>>

\* The serial number operations, one call per behaviour, on a card whose EF
\* GDO holds GdoSize bytes or is cut short.
GdoSize == 26
GdoSizes == {GdoSize, 10, 20}
SerialBuf(junk) == [i \in 1 .. 8 |-> junk]
SNArgs == {[Data_Ora |-> <<32, 38, 17, 1, 18, 48, 0, 0>>, Prezzo |-> 1250]}
SNRequestsOf(op, argss, out, fault, anss) ==
  {SNRequest(op, 1, 0, args, out, fault, ans, junk, eofSW) :
     args \in argss, ans \in anss, junk \in JunkBytes, eofSW \in EofSWs}
SNRequests ==
  UNION {SNRequestsOf("GetSNML call", {<<>>}, SerialBuf(85), NoFault, Answers(dt))
           \cup SNRequestsOf("ComputeSigilloExML call", SNArgs, SealOut, NoFault, Answers(dt))
           \cup UNION {SNRequestsOf("GetSNML call", {<<>>}, SerialBuf(85), fault, {Ok(dt)})
                         \cup SNRequestsOf("ComputeSigilloExML call", SNArgs, SealOut,
                                           fault, {Ok(dt)}) : fault \in OpFaults} :
         dt \in SealData}

InitSN ==
  /\ Loaded \/ Connected
  /\ efSize \in GdoSizes
  /\ files = {}
  /\ p7 = NoSigning
  /\ asn = NoObjects
  /\ last \in SNRequests

NextSN ==
  \/ GetSNML /\ UNCHANGED <<p7, asn>>
  \/ ComputeSigilloExML /\ UNCHANGED <<p7, asn>>

SpecSN == InitSN /\ [][NextSN]_vars

\* ---- every card operation, called at depth 0 and inside a transaction its
\* caller began on the slot

\* Slot 0 connected and one BeginTransactionML of caller 1 on it returned,
\* with the driver lock taken.
InCallerTransaction ==
  /\ hContext = 1
  /\ hCards = [s \in Slots |-> IF s = 0 THEN 1 ELSE 0]
  /\ hCardsTransactions = [s \in Slots |-> IF s = 0 THEN 1 ELSE 0]
  /\ initialized = TRUE
  /\ instances = 1
  /\ defSlot = 0
  /\ drvCtx = 1
  /\ drvConn = [s \in Slots |-> s = 0]
  /\ drvLock = [s \in Slots |-> s = 0]
  /\ bal = [t \in Callers |-> [s \in Slots |-> IF t = 1 /\ s = 0 THEN 1 ELSE 0]]
  /\ neg = [t \in Callers |-> [s \in Slots |-> FALSE]]

KeyRequests ==
  {OpRequest("GetKeyIDML call", 1, 0, <<>>, 0, NoFault, ans, junk) :
     ans \in Answers(<<0, 1>>), junk \in JunkBytes}
  \cup {OpRequest("GetKeyIDML call", 1, 0, <<>>, 0, fault, ActiveKey2, 170) :
          fault \in OpFaults}
CertRequests ==
  {CertRequest(1, 0, certNull, dim, NoFault, ans, 170, eofSW) :
     certNull \in BOOLEAN, dim \in {NoLe, 0, CertFileSize - 2},
     ans \in Answers(<<0, 1>>), eofSW \in EofSWs}
  \cup {CertRequest(1, 0, FALSE, CertFileSize - 2, fault, ActiveKey2, 170, SW_WRONG_LENGTH) :
          fault \in OpFaults}
SelectRequests ==
  {OpRequest("SelectML call", 1, 0, [fid |-> fid], <<>>, NoFault, ans, 0) :
     fid \in {FID_MF, FID_EF_GDO}, ans \in Answers(<<>>)}
  \cup {OpRequest("SelectML call", 1, 0, [fid |-> FID_MF], <<>>, fault, Ok(<<>>), 0) :
          fault \in OpFaults}
FrameRequests ==
  SelectRequests \cup Requests \cup VerifyRequests \cup OpRequests \cup SNRequests
    \cup KeyRequests \cup CertRequests

InitFrame ==
  /\ Connected \/ InCallerTransaction
  /\ efSize \in {GdoSize, CertFileSize}
  /\ files = {}
  /\ p7 = NoSigning
  /\ asn = NoObjects
  /\ last \in {[q EXCEPT !.pre = hCardsTransactions[q.s]] : q \in {x \in FrameRequests : x.s = 0}}

NextFrame ==
  \/ SelectMLCall /\ UNCHANGED <<p7, asn>>
  \/ ReadBinaryML /\ UNCHANGED <<p7, asn>>
  \/ GetSNML /\ UNCHANGED <<p7, asn>>
  \/ VerifyPINML /\ UNCHANGED <<p7, asn>>
  \/ ReadCounterML /\ UNCHANGED <<p7, asn>>
  \/ ReadBalanceML /\ UNCHANGED <<p7, asn>>
  \/ ComputeSigilloML /\ UNCHANGED <<p7, asn>>
  \/ ComputeSigilloExML /\ UNCHANGED <<p7, asn>>
  \/ GetKeyIDML /\ UNCHANGED <<p7, asn>>
  \/ GetCertificateML /\ UNCHANGED <<p7, asn>>
  \/ SignML /\ UNCHANGED <<p7, asn>>

SpecFrame == InitFrame /\ [][NextFrame]_vars

\* ------------------------------------------------------------- der_parse

MaxDerLen == 4

\* An unsigned int of 2^31 or more, which the model does not tell apart.
Huge == 2147483647

\* ln = (ln << 8) | *der++ on an unsigned int that holds at most three bytes
\* before the shift.
Shl8(ln, byte) == IF ln >= 8388608 THEN Huge ELSE ln * 256 + byte

\* #define TEST_UNEXP_END(X) if (der + (X) > der_end) return v;
\* with der and der_end as offsets into the slice.  der + X for an X of 2^31
\* or more is a pointer outside the slice: where pointers are 32 bits wide it
\* can wrap below der_end (wrap), and the test then lets the length pass.
TEST_UNEXP_END(der, X, der_end, wrap) ==
  IF X = Huge THEN ~wrap ELSE der + X > der_end

\* The cases of switch (b) that run, falling through from case b to case 1;
\* a b above 4 matches no case ("if (b > 4) v;" is an expression statement
\* and returns nothing).
SwitchCases(b) == IF b \in 1 .. 4 THEN b ELSE 0

\* The n cases still to run at offset der: each tests for one more byte and
\* shifts it into ln.
RECURSIVE LongLength(_, _, _, _)
LongLength(bytes, der, n, ln) ==
  IF n = 0 THEN [ok |-> TRUE, ln |-> ln, der |-> der]
  ELSE IF TEST_UNEXP_END(der, 1, Len(bytes), FALSE) THEN [ok |-> FALSE, ln |-> ln, der |-> der]
  ELSE LongLength(bytes, der + 1, n - 1, Shl8(ln, bytes[der + 1]))

\* The length that follows the length byte b at offset der.
LengthAt(bytes, der, b) ==
  IF b >= 128 THEN LongLength(bytes, der, SwitchCases(b % 128), 0)
  ELSE [ok |-> TRUE, ln |-> b, der |-> der]

\* One item of the vector; value and fvalue are offsets into the slice.
DerItem(tag, value, len, fvalue, flen) ==
  [tag |-> tag, value |-> value, len |-> len, fvalue |-> fvalue, flen |-> flen]

\* The body of the while loop from the test of the length on; l is the
\* length read.  After a length that passed the test by wrapping, der += ln
\* leaves the slice and the model follows the loop no further.
RECURSIVE der_parse_from(_, _, _, _)
ItemAt(bytes, fder, l, v, wrap) ==
  IF ~l.ok \/ TEST_UNEXP_END(l.der, l.ln, Len(bytes), wrap) THEN v
  ELSE IF l.ln = Huge
    THEN Append(v, DerItem(bytes[fder + 1], l.der, l.ln, fder, Huge))
  ELSE der_parse_from(bytes, l.der + l.ln,
         Append(v, DerItem(bytes[fder + 1], l.der, l.ln, fder, (l.der - fder) + l.ln)),
         wrap)

\* while (der < der_end) { ... } from offset der with the items v so far.
der_parse_from(bytes, der, v, wrap) ==
  IF ~(der < Len(bytes)) THEN v
  ELSE IF bytes[der + 1] % 32 = 31 THEN v
  ELSE IF TEST_UNEXP_END(der + 1, 1, Len(bytes), FALSE) THEN v
  ELSE IF bytes[der + 2] = 128 THEN v
  ELSE ItemAt(bytes, der, LengthAt(bytes, der + 2, bytes[der + 2]), v, wrap)

\* der_parse(der_begin, der_len)
der_parse(bytes, wrap) == der_parse_from(bytes, 0, <<>>, wrap)

\* The slices given to der_parse: every byte string of up to MaxDerLen bytes
\* over DerBytes, and some with longer length fields.
DerBytes == {0, 1, 2, 4, 31, 48, 128, 129, 130, 133}
DerSlices ==
  UNION {[1 .. n -> DerBytes] : n \in 0 .. MaxDerLen}
    \cup {<<4, 131, 0, 0, 1, 7>>, <<4, 132, 0, 0, 0, 2, 7, 8, 2, 0>>,
          <<48, 132, 0, 0, 1, 0, 5>>, <<4, 132, 255, 255, 255, 240, 1, 1>>,
          <<4, 132, 128, 0, 0, 0>>, <<2, 1, 5, 48, 133, 1, 1, 0, 4, 0>>,
          <<48, 3, 2, 1, 5, 159, 31, 1, 0>>, <<4, 255, 2, 1, 9>>}

\* The der_parse call under way, from entry to return.
DerParseCall ==
  /\ last.op = "der_parse call"
  /\ \E wrap \in BOOLEAN :
       last' = [last EXCEPT !.op = "der_parse", !.out = der_parse(last.req, wrap)]
  /\ UNCHANGED <<prog, drv, aside>>

InitParse ==
  /\ Loaded
  /\ efSize = 0
  /\ files = {}
  /\ p7 = NoSigning
  /\ asn = NoObjects
  /\ last \in {[Call("der_parse call", 1, 0, C_OK, 0, <<>>) EXCEPT !.req = bytes] :
                 bytes \in DerSlices}

NextParse == DerParseCall /\ UNCHANGED <<p7, asn>>

SpecParse == InitParse /\ [][NextParse]_vars

\* ---------------------------------------------------------------- CBase64

MaxB64Len == 4

CMD_NONE == 0
CMD_ENCODE == 1
CMD_DECODE == 2

\* charTbl[i], as the character's code
charTbl(i) ==
  IF i < 26 THEN 65 + i
  ELSE IF i < 52 THEN 97 + (i - 26)
  ELSE IF i < 62 THEN 48 + (i - 52)
  ELSE IF i = 62 THEN 43 ELSE 47

\* byteTbl[c]: 0xFF for a character outside the alphabet, 0x40 for '='
byteTbl(c) ==
  IF c = 43 THEN 62
  ELSE IF c = 47 THEN 63
  ELSE IF c \in 48 .. 57 THEN 52 + (c - 48)
  ELSE IF c = 61 THEN 64
  ELSE IF c \in 65 .. 90 THEN c - 65
  ELSE IF c \in 97 .. 122 THEN 26 + (c - 97)
  ELSE 255

\* (unsigned long)-1
NoLength == -1

\* The object after CBase64::CBase64(); the constructor sets locals named
\* cbSource and typSource, not the members.
CBase64 ==
  [pbSource |-> <<>>, cbSource |-> 0, pbDestination |-> <<>>, cbDestination |-> 0,
   cmdCurrent |-> CMD_NONE, uLineLength |-> 64]

\* CBase64::SetLineLength on an unsigned int
SetLineLength(o, uLineLength) ==
  [o EXCEPT !.uLineLength = IF uLineLength > 76 THEN 76 ELSE uLineLength - (uLineLength % 4)]

\* CBase64::B64EncodedLength, for a line length other than 0
B64EncodedLength(o) ==
  ((o.cbSource \div 3) * 4 + (IF o.cbSource % 3 # 0 THEN 4 ELSE 0))
    + ((((o.cbSource \div 3) * 4 + (IF o.cbSource % 3 # 0 THEN 4 ELSE 0)) \div o.uLineLength)
        + (IF ((o.cbSource \div 3) * 4 + (IF o.cbSource % 3 # 0 THEN 4 ELSE 0))
                % o.uLineLength = 0 THEN 1 ELSE 0)) * 2

\* while (byteTbl[*p--] == 0xFF) cbSource--;  the model's sources all hold a
\* character of the alphabet, so the loop ends inside the buffer
RECURSIVE Trimmed(_, _)
Trimmed(pbSource, cbSource) ==
  IF cbSource > 0 /\ byteTbl(pbSource[cbSource]) = 255 THEN Trimmed(pbSource, cbSource - 1)
  ELSE cbSource

\* while (pbSource[cbSource - uPaddingChars - 1] == '=') uPaddingChars++;
RECURSIVE PaddingChars(_, _, _)
PaddingChars(pbSource, cbSource, u) ==
  IF cbSource - u >= 1 /\ pbSource[cbSource - u] = 61
    THEN PaddingChars(pbSource, cbSource, u + 1)
  ELSE u

\* The value DecodedLength returns for a source trimmed to cbSource.
CleanLength(pbSource, cbSource) ==
  cbSource - Cardinality({i \in 1 .. cbSource : byteTbl(pbSource[i]) = 255})
DecodedOf(dwCleanLength, uPaddingChars) ==
  IF dwCleanLength % 4 # 0 \/ uPaddingChars > 2 THEN NoLength
  ELSE ((dwCleanLength - 4) \div 4) * 3
         + (IF uPaddingChars = 0 THEN 3 ELSE IF uPaddingChars = 2 THEN 1 ELSE 2)

\* CBase64::DecodedLength: it shortens cbSource and returns the length.
DecodedLength(o) ==
  [o EXCEPT
     !.cbSource = Trimmed(o.pbSource, o.cbSource),
     !.cbDestination =
        DecodedOf(CleanLength(o.pbSource, Trimmed(o.pbSource, o.cbSource)),
                  PaddingChars(o.pbSource, Trimmed(o.pbSource, o.cbSource), 0))]

\* The four characters of one main chunk.
EncodedChunk(s1, s2, s3) ==
  <<charTbl(s1 \div 4), charTbl(BitOr(s2 \div 16, (s1 % 4) * 16, 6)),
    charTbl(BitOr(s3 \div 64, (s2 % 16) * 4, 6)), charTbl(s3 % 64)>>

\* The for loop of Encode from chunk i on: four characters per chunk and CR
\* LF after every uCyclesPerLineFeed-th chunk.
RECURSIVE MainChunks(_, _, _, _)
MainChunks(s, i, dwMainChunk, uCyclesPerLineFeed) ==
  IF i > dwMainChunk THEN <<>>
  ELSE EncodedChunk(s[3 * i - 2], s[3 * i - 1], s[3 * i])
         \o (IF i % uCyclesPerLineFeed = 0 THEN <<13, 10>> ELSE <<>>)
         \o MainChunks(s, i + 1, dwMainChunk, uCyclesPerLineFeed)

\* switch (bModulus): the last one or two bytes, padded with '='
LastChunk(s, bModulus) ==
  IF bModulus = 1
    THEN <<charTbl(s[Len(s)] \div 4), charTbl((s[Len(s)] % 4) * 16), 61, 61>>
  ELSE IF bModulus = 2
    THEN <<charTbl(s[Len(s) - 1] \div 4),
           charTbl(BitOr(s[Len(s)] \div 16, (s[Len(s) - 1] % 4) * 16, 6)),
           charTbl((s[Len(s)] % 16) * 4), 61>>
  ELSE <<>>

\* CBase64::Encode: the bytes it stores through d, in order.
B64Encode(o) ==
  MainChunks(o.pbSource, 1, o.cbSource \div 3, o.uLineLength \div 4)
    \o LastChunk(SubSeq(o.pbSource, 1, o.cbSource), o.cbSource % 3)

\* The bytes Decode stores for the codes in pbBuffer.
Decoded(pbBuffer, n) ==
  SubSeq(<<BitOr((pbBuffer[1] * 4) % 256, pbBuffer[2] \div 16, 8),
           BitOr((pbBuffer[2] * 16) % 256, pbBuffer[3] \div 4, 8),
           BitOr((pbBuffer[3] * 64) % 256, pbBuffer[4], 8)>>, 1, n)

\* The codes that Decode puts in pbBuffer: byteTbl of each source character
\* that is not 0xFF, in order.
InAlphabet(c) == byteTbl(c) # 255
Codes(s, cbSource) ==
  [i \in 1 .. Len(SelectSeq(SubSeq(s, 1, cbSource), InAlphabet)) |->
     byteTbl(SelectSeq(SubSeq(s, 1, cbSource), InAlphabet)[i])]

\* CBase64::Decode from the k-th code on, with pbBuffer empty: a '=' that is
\* the third or the fourth code of a group of four stores one or two bytes
\* and returns, a full group stores three bytes.
RECURSIVE DecodeFrom(_, _)
DecodeFrom(codes, k) ==
  IF k + 2 > Len(codes) THEN <<>>
  ELSE IF codes[k + 2] = 64 THEN Decoded(SubSeq(codes, k, k + 2) \o <<0>>, 1)
  ELSE IF k + 3 > Len(codes) THEN <<>>
  ELSE IF codes[k + 3] = 64 THEN Decoded(SubSeq(codes, k, k + 3), 2)
  ELSE Decoded(SubSeq(codes, k, k + 3), 3) \o DecodeFrom(codes, k + 4)

B64Decode(o) == DecodeFrom(Codes(o.pbSource, o.cbSource), 1)

\* The destination after the bytes written were stored from its start.
Written(pbDestination, written) ==
  [i \in 1 .. (IF Len(written) > Len(pbDestination) THEN Len(written)
               ELSE Len(pbDestination)) |->
     IF i <= Len(written) THEN written[i] ELSE pbDestination[i]]

\* One use of a CBase64 object: the bytes B to encode, the line length given
\* to SetLineLength, and the byte that the memory from new[] holds.
B64Bytes == {0, 77, 97, 255}
B64Inputs ==
  UNION {[1 .. n -> B64Bytes] : n \in 1 .. MaxB64Len}
    \cup {[i \in 1 .. n |-> (37 * i) % 256] : n \in {45, 47, 48}}
LineLengths == {2, 4, 8, 10, 64, 76, 100}
HeapBytes == {0, 61, 65}

B64Use(B, uLineLength, junk) ==
  [Call("CBase64", 1, 0, C_OK, 0, <<>>) EXCEPT
     !.req = [B |-> B, uLineLength |-> uLineLength, junk |-> junk],
     !.out = CBase64]

\* b64.SetLineLength(uLineLength) on the new object
SetLineLengthCall ==
  /\ last.op = "CBase64"
  /\ last' = [last EXCEPT !.op = "SetLineLength",
                          !.out = SetLineLength(last.out, last.req.uLineLength)]
  /\ UNCHANGED <<prog, drv, aside>>

\* b64.LoadBufferToEncode(B, |B|): with a line length of 0 the division in
\* B64EncodedLength is by zero and the call does not return.
LoadBufferToEncode ==
  /\ last.op \in {"CBase64", "SetLineLength"}
  /\ IF last.req.B = <<>> THEN last' = [last EXCEPT !.op = "LoadBufferToEncode", !.rv = 0]
     ELSE IF last.out.uLineLength = 0 THEN last' = [last EXCEPT !.op = "division by zero"]
     ELSE last' = [last EXCEPT
            !.op = "LoadBufferToEncode", !.rv = 1,
            !.out = [last.out EXCEPT
                       !.pbSource = last.req.B, !.cbSource = Len(last.req.B),
                       !.cmdCurrent = CMD_ENCODE,
                       !.cbDestination =
                          B64EncodedLength([last.out EXCEPT !.cbSource = Len(last.req.B)])]]
  /\ UNCHANGED <<prog, drv, aside>>

\* b64.LoadBufferToDecode(pb, cb) with the buffer and the length that the
\* ProcessToBuffer of the encoding gave back
LoadBufferToDecode ==
  /\ last.op = "ProcessToBuffer" /\ last.out.cmdCurrent = CMD_ENCODE
  /\ last' = [last EXCEPT
       !.op = "LoadBufferToDecode", !.rv = 1,
       !.out = DecodedLength([last.out EXCEPT
                  !.pbSource = last.out.pbDestination,
                  !.cbSource = last.out.cbDestination,
                  !.cmdCurrent = CMD_DECODE])]
  /\ UNCHANGED <<prog, drv, aside>>

\* b64.ProcessToBuffer(&pb, &cb) with pb NULL: new unsigned char[cbDestination],
\* whose bytes are not initialized, then Encode or Decode; Len is the number
\* of bytes stored through d.  new[] of (unsigned long)-1 bytes throws.
ProcessToBuffer ==
  /\ last.op \in {"LoadBufferToEncode", "LoadBufferToDecode"} /\ last.rv = 1
  /\ IF last.out.cbDestination = NoLength THEN last' = [last EXCEPT !.op = "bad_alloc"]
     ELSE last' = [last EXCEPT
            !.op = "ProcessToBuffer", !.rv = 1,
            !.Len = IF last.out.cmdCurrent = CMD_ENCODE THEN Len(B64Encode(last.out))
                    ELSE Len(B64Decode(last.out)),
            !.out = [last.out EXCEPT
                       !.pbDestination =
                          Written([i \in 1 .. last.out.cbDestination |-> last.req.junk],
                                  IF last.out.cmdCurrent = CMD_ENCODE THEN B64Encode(last.out)
                                  ELSE B64Decode(last.out))]]
  /\ UNCHANGED <<prog, drv, aside>>

InitB64 ==
  /\ Loaded
  /\ efSize = 0
  /\ files = {}
  /\ p7 = NoSigning
  /\ asn = NoObjects
  /\ last \in {B64Use(B, uLineLength, junk) :
                 B \in B64Inputs, uLineLength \in LineLengths, junk \in HeapBytes}

NextB64 ==
  \/ SetLineLengthCall /\ UNCHANGED <<p7, asn>>
  \/ LoadBufferToEncode /\ UNCHANGED <<p7, asn>>
  \/ ProcessToBuffer /\ UNCHANGED <<p7, asn>>
  \/ LoadBufferToDecode /\ UNCHANGED <<p7, asn>>

SpecB64 == InitB64 /\ [][NextB64]_vars

\* ------------------------------------------------------------------ claims

Depth(s) == hCardsTransactions[s]

LockCalls(l, f) == {i \in DOMAIN l.log : l.log[i].f = f}

\* C1 as stated: the depth counter is >= 0 after every begin or end call, and
\* it is 0 whenever as many begins as ends have been called on the slot, in
\* whatever order they came.
C1_ZeroWhenEqualCounts ==
  \A s \in Slots : Depth(s) >= 0 /\ (bal[1][s] = 0 => Depth(s) = 0)

\* C1 amended: the depth counter is >= 0 after every call, and it is 0 after
\* as many begins as ends when no end came without an earlier begin to match.
C1_ZeroWhenBalanced ==
  \A s \in Slots : Depth(s) >= 0 /\ (bal[1][s] = 0 /\ ~neg[1][s] => Depth(s) = 0)

\* C1 witness: an end has just closed the outermost transaction of a balanced
\* sequence.
C1_Witness ==
  /\ last.op = "EndTransactionML" /\ last.pre = 1
  /\ bal[1][last.s] = 0 /\ ~neg[1][last.s] /\ Depth(last.s) = 0

\* C2: while a caller is inside a transaction on a slot (it has begun more
\* transactions than it has ended), no APDU of another caller is transmitted
\* to that slot's card.
C2_NoForeignAPDU ==
  (last.op = "SendAPDUML" /\ \E j \in LockCalls(last, "SCardTransmit") : last.log[j].ok) =>
    \A u \in Callers \ {last.t} : bal[u][last.s] <= 0

\* C3: every slot whose depth counter is > 0 has the driver's exclusive lock
\* held on its handle.
C3_LockHeldWhileDepth ==
  \A s \in Slots : Depth(s) > 0 => drvLock[s]

\* C4: a begin calls SCardBeginTransaction only when it takes the depth from
\* 0 to 1, an end calls SCardEndTransaction only when it takes the depth from
\* 1 to 0, and neither makes any other driver lock call.
C4_LockOnlyOnEdge ==
  [][ /\ last'.op = "BeginTransactionML" =>
           /\ LockCalls(last', "SCardEndTransaction") = {}
           /\ LockCalls(last', "SCardBeginTransaction") # {} =>
                Depth(last'.s) = 0 /\ hCardsTransactions'[last'.s] = 1
      /\ last'.op = "EndTransactionML" =>
           /\ LockCalls(last', "SCardBeginTransaction") = {}
           /\ LockCalls(last', "SCardEndTransaction") # {} =>
                Depth(last'.s) = 1 /\ hCardsTransactions'[last'.s] = 0 ]_vars

\* C4 witness: a nested begin has returned without a driver call.
C4_Witness ==
  /\ last.op = "BeginTransactionML" /\ last.pre = 1
  /\ last.log = <<>> /\ Depth(last.s) = 2 /\ drvConn[last.s]

\* C5: when FinalizeML has returned C_OK the slot's depth counter is 0.
C5_FinalizeResetsDepth ==
  (last.op = "FinalizeML" /\ last.rv = C_OK) => Depth(last.s) = 0

\* C6: one SendAPDUML call transmits its APDU twice at most, and a reset
\* reported on the retry ends the call with C_NO_CARD.
C6_AtMostOneRetry ==
  last.op = "SendAPDUML" =>
    /\ Cardinality(LockCalls(last, "SCardTransmit")) <= 2
    /\ (Cardinality(LockCalls(last, "SCardReconnect")) >= 2 => last.rv = C_NO_CARD)

\* C7: when SendAPDUML transmits again after a reset at depth > 0, the
\* transmission follows a SCardReconnect and a successful
\* SCardBeginTransaction and is made with the lock held, the bytes sent are
\* those of the first transmission, and the call leaves the slot's depth
\* counter and handle as they were.
C7_RelockBeforeRetry ==
  [][ (last'.op = "SendAPDUML" /\ last'.pre > 0 /\ Len(last'.sent) >= 2) =>
        /\ \A j \in LockCalls(last', "SCardTransmit") :
             j > 1 => /\ last'.log[j].lock
                      /\ last'.log[j - 1].f = "SCardBeginTransaction"
                      /\ last'.log[j - 1].ok
                      /\ last'.log[j - 2].f = "SCardReconnect"
        /\ \A i \in DOMAIN last'.sent : last'.sent[i] = last'.sent[1]
        /\ Len(last'.sent) = Cardinality(LockCalls(last', "SCardTransmit"))
        /\ hCardsTransactions'[last'.s] = Depth(last'.s)
        /\ Depth(last'.s) = last'.pre
        /\ hCards'[last'.s] = hCards[last'.s] ]_vars

\* C7 witness: a call at depth > 0 has transmitted twice and returned C_OK.
C7_Witness ==
  /\ last.op = "SendAPDUML" /\ last.pre > 0
  /\ Len(last.sent) = 2 /\ last.rv = C_OK

\* C8 as stated: a card operation that ends with C_NO_CARD leaves the slot
\* empty.
C8_EmptyAfterNoCard ==
  (last.op = "SendAPDUML" /\ last.rv = C_NO_CARD) => hCards[last.s] = 0

\* C8 amended: a connected slot becomes empty when FinalizeML is called on it
\* and by nothing else; a card operation that ends with C_NO_CARD leaves the
\* slot connected.
C8_EmptyOnlyByFinalize ==
  [][ \A s \in Slots :
        hCards[s] # 0 =>
          (hCards'[s] = 0 <=> (last'.op = "FinalizeML" /\ last'.s = s)) ]_vars

\* C8 witness: a card operation has ended with C_NO_CARD on a slot that is
\* still connected.
C8_Witness ==
  last.op = "SendAPDUML" /\ last.rv = C_NO_CARD /\ hCards[last.s] # 0

\* C9: the library holds a reader context if and only if at least one slot is
\* connected.
C9_ContextIffConnected ==
  (hContext # 0) <=> (\E s \in Slots : hCards[s] # 0)

\* C10: ReadBinaryML(offset, buf, &N) with N >= 1 on a file of S bytes, the
\* transport working: when offset + N <= S it returns C_OK with *Len = N and
\* buf holding the N file bytes from offset; when offset + N > S it returns
\* WRONG_LENGTH with *Len = S - offset and buf holding those S - offset bytes.
C10_ReadBinaryExact ==
  (/\ last.op = "ReadBinaryML" /\ drvConn[last.s]
   /\ last.req.fault = NoFault /\ last.req.N >= 1 /\ last.req.Offset <= efSize) =>
    LET off == last.req.Offset
        N == last.req.N
        got == IF off + N <= efSize THEN N ELSE efSize - off
    IN /\ last.rv = (IF off + N <= efSize THEN C_OK ELSE C_WRONG_LENGTH)
       /\ last.Len = got
       /\ \A i \in 1 .. got : last.out[i] = FileByte(off + i - 1)

\* C11: when the transmit of a SendAPDUML call succeeds with a response of
\* len >= 2 bytes, the status word returned is response[len-2] * 256 +
\* response[len-1], the output buffer holds the len - 2 payload bytes and
\* *pLe is len - 2, whatever Le the caller passed.
C11_PayloadAndLength ==
  (last.op = "SendAPDUML" /\ last.rv = C_OK) =>
    LET resp == last.req.resp
        len == Len(resp)
    IN /\ last.SW = resp[len - 1] * 256 + resp[len]
       /\ ~last.req.outNull => \A i \in 1 .. len - 2 : last.out[i] = resp[i]
       /\ last.req.pLe # NoLe => last.pLe = len - 2

\* The Lc and the command data of a transmitted APDU that ends with an Le
\* byte (CLA INS P1 P2 [Lc data] Le).
ApduLc(buf) == IF Len(buf) > 5 THEN buf[5] ELSE 0
ApduData(buf) == SubSeq(buf, 6, Len(buf) - 1)
ApduHeader(buf) == SubSeq(buf, 1, 4)

\* What a SendAPDUML call returns when the driver answers script and the
\* script ends the call: C_OK after a transmission that succeeds,
\* C_GENERIC_ERROR after an error the code does not name, C_NO_CARD otherwise.
TransportCode(script) ==
  LET a == script[Len(script)]
  IN IF a.tx = "ok" THEN C_OK ELSE IF a.tx = "other" THEN C_GENERIC_ERROR ELSE C_NO_CARD

\* The driver calls of a card operation are those of one transaction: when
\* it was entered at depth 0 its first driver call is SCardBeginTransaction,
\* its last SCardEndTransaction, and no SCardEndTransaction comes between.
OneTransaction(l) ==
  /\ Depth(l.s) = l.pre
  /\ l.pre = 0 =>
       /\ l.log[1].f = "SCardBeginTransaction"
       /\ l.log[Len(l.log)].f = "SCardEndTransaction"
       /\ \A j \in 2 .. Len(l.log) - 1 : l.log[j].f # "SCardEndTransaction"

\* The place in the log of a call of its m-th transmission, and whether that
\* transmission repeats an APDU after a reset (it follows the SCardReconnect
\* and SCardBeginTransaction of the recovery).
TransmitAt(l, m) ==
  CHOOSE j \in DOMAIN l.log :
    /\ l.log[j].f = "SCardTransmit"
    /\ Cardinality({i \in 1 .. j : l.log[i].f = "SCardTransmit"}) = m
Repeats(l, m) ==
  LET j == TransmitAt(l, m)
  IN j > 2 /\ l.log[j - 1].f = "SCardBeginTransaction" /\ l.log[j - 2].f = "SCardReconnect"

\* The APDUs of a call in the order sent, each once however many times a
\* reset made SendAPDUML transmit it.
Apdus(l) ==
  LET keep == {m \in DOMAIN l.sent : ~Repeats(l, m)}
  IN [i \in 1 .. Cardinality(keep) |->
        l.sent[CHOOSE m \in keep : Cardinality({x \in keep : x <= m}) = i]]

\* C12: when every APDU gets its answer from the card (a reset recovered
\* from included), VerifyPINML sends VERIFY with Lc = the length of the PIN;
\* only if that returns 6700, VERIFY with Lc = 8 and the PIN padded with
\* zeros or cut to 8 bytes; only if the last of these returns 6300, VERIFY
\* with Lc = 0; and nothing else.  It returns C_OK exactly when the last
\* VERIFY carrying the PIN returned 9000 and the last status word received
\* otherwise, and all its APDUs are inside one transaction.
C12_VerifySequence ==
  (/\ last.op = "VerifyPINML" /\ last.req.nPIN = 1
   /\ TransportCode(last.req.fault.script) = C_OK) =>
    LET pin == last.req.pin
        sws == last.req.sws
        sent == Apdus(last)
        retry == sws[1] = \H6700
        nPin == IF retry THEN 2 ELSE 1
        pinSW == sws[nPin]
        query == pinSW = \H6300
        total == IF query THEN nPin + 1 ELSE nPin
    IN /\ Len(sent) = total
       /\ \A m \in DOMAIN last.sent : Repeats(last, m) => last.sent[m] = last.sent[m - 1]
       /\ \A i \in 1 .. total : ApduHeader(sent[i]) = <<0, 32, 0, 129>>
       /\ ApduLc(sent[1]) = Len(pin) /\ ApduData(sent[1]) = pin
       /\ retry => /\ ApduLc(sent[2]) = 8
                   /\ ApduData(sent[2]) =
                        [i \in 1 .. 8 |-> IF i <= Len(pin) THEN pin[i] ELSE 0]
       /\ query => sent[total] = <<0, 32, 0, 129, 0>>
       /\ last.rv = (IF pinSW = SW_OK THEN C_OK ELSE sws[total])
       /\ last.rv = C_OK <=> pinSW = SW_OK
       /\ OneTransaction(last)

\* C12 witness: a 10-character PIN was refused with 6700, sent again cut to 8
\* bytes and refused with 6300, and the call returned the status word of the
\* VERIFY with Lc = 0.
C12_Witness ==
  /\ last.op = "VerifyPINML" /\ last.req.fault = NoFault
  /\ Len(last.req.pin) = 10 /\ Len(last.sent) = 3
  /\ last.rv = \H63C2

\* The number of APDUs of an operation that runs to its end.
ApduCount(op) == IF op = "SignML" THEN 6 ELSE 5

\* C13: when an APDU of ReadCounterML, ReadBalanceML, ComputeSigilloML or
\* SignML, the SELECTs of the file walk included, ends with a status word
\* other than 9000, the operation returns that status word; when it ends
\* with a transport error, the operation returns the transport code.
C13_ErrorsVerbatim ==
  (/\ last.op \in {"ReadCounterML", "ReadBalanceML", "ComputeSigilloML", "SignML"}
   /\ last.op = "SignML" => last.req.args.kx <= 255) =>
    /\ (last.req.fault = NoFault /\ last.req.ans.failAt \in 1 .. ApduCount(last.op)) =>
         last.rv = last.req.ans.failSW
    /\ (/\ last.req.ans.failAt = 0
        /\ last.req.fault.at \in 1 .. ApduCount(last.op)
        /\ TransportCode(last.req.fault.script) # C_OK) =>
         last.rv = TransportCode(last.req.fault.script)

\* SELECT of the file fid as SelectML transmits it.
SelectApdu(fid) == <<0, 164, 0, 0, 2, Byte(fid, 1), Byte(fid, 0)>>

\* C14: ComputeSigilloML sends SELECT for 3F00, 0000, 1112 and 1000 in that
\* order, then one COMPUTE SEAL (00 32 83 12) whose 22 data bytes are 00 01,
\* SN, the date and time and the price as 4 bytes, high byte first; when the
\* card answers it with 9000, cnt is the value of response bytes 0..3, high
\* byte first, and mac is response bytes 4..11; when the call fails, cnt and
\* mac are as they were.
C14_SealChallengeAndSplit ==
  last.op = "ComputeSigilloML" =>
    LET a == last.req.args
        ans == last.req.ans
        sent == Apdus(last)
        walk == <<FID_MF, FID_SIAE_APP_DOMAIN, FID_SIAE_CNT_DOMAIN, FID_EF_CNT>>
    IN /\ \A i \in DOMAIN sent :
            IF i <= 4 THEN sent[i] = SelectApdu(walk[i])
            ELSE /\ i = 5
                 /\ ApduHeader(sent[i]) = <<0, 50, 131, 18>>
                 /\ ApduLc(sent[i]) = 22
                 /\ ApduData(sent[i]) =
                      <<0, 1>> \o a.SN \o a.Data_Ora
                        \o <<(a.Prezzo \div 16777216) % 256, (a.Prezzo \div 65536) % 256,
                             (a.Prezzo \div 256) % 256, a.Prezzo % 256>>
       /\ (ans.failAt = 0 /\ TransportCode(last.req.fault.script) = C_OK) =>
            /\ Len(sent) = 5
            /\ last.rv = C_OK
            /\ last.out.cnt = BE32(SubSeq(ans.data, 1, 4))
            /\ last.out.mac = SubSeq(ans.data, 5, 12)
       /\ last.rv # C_OK => last.out = SealOut


\* The status word of the APDU that fails in a signing flow the environment
\* env answers: a VERIFY (the VERIFY with Lc = 0 after 6300), a SELECT or
\* READ RECORD of the key lookup, one of the certificate read, or MSE
\* RESTORE, MSE SET or PSO SIGN, the 4th to 6th APDU of SignML; 0 when none
\* of these fails.
FailingSW(env) ==
  IF env.sws[1] = SW_AUTH_FAILED THEN env.sws[2]
  ELSE IF env.sws[1] # SW_OK THEN env.sws[1]
  ELSE IF env.key.failAt # 0 THEN env.key.failSW
  ELSE IF env.key.data = <<0, 0>> THEN 0
  ELSE IF env.cert.failAt # 0 THEN env.cert.failSW
  ELSE IF env.certOk /\ env.sign.failAt \in 4 .. 6 THEN env.sign.failSW
  ELSE 0

\* C15: when PKCS7SignML has read its input and has the slot initialized,
\* and an APDU of its PIN verification, key lookup, certificate read or of
\* MSE RESTORE / MSE SET / PSO SIGN ends with a status word other than 9000,
\* PKCS7SignML returns that status word.
C15_StatusWordReturned ==
  (/\ p7.pc = "returned" /\ p7.fn = "PKCS7SignML" /\ "in" \in files
   /\ p7.iInitRes \in {C_OK, C_ALREADY_INITIALIZED}
   /\ efSize = CertFileSize
   /\ FailingSW(p7.env) # 0) =>
    p7.rv = FailingSW(p7.env)

\* The code the entry point called has returned.
SigningCode(f) == IF f.fn = "SMIMESignML" THEN f.iRv ELSE f.rv

RECURSIVE Extent(_)
Extent(buf) ==
  IF buf = <<>> THEN 0
  ELSE LET e == Extent(Tail(buf))
           h == Head(buf).at + Head(buf).cb
       IN IF h > e THEN h ELSE e

\* C17: for every object, of any class, any tag number, those from 31 on
\* included, primitive or constructed, with a content length in the short
\* form or in a long form of 1 to 4 bytes, GetEncoded writes as many bytes
\* as GetEncodedLength reports.
C17_WrittenIsEncodedLength ==
  asn.root # 0 => Extent(asn.buf) = asn.cb


\* C18: after any construction steps (Add of children in any order,
\* SetImplicit on an object, wrapping an object in a tagged wrapper) the
\* content length of every sequence is the sum of the encoded lengths its
\* children report now and that of every tagged wrapper is the encoded length
\* its inner object reports now; and an emission fills exactly the encoded
\* length its root reported, one store after the other from offset 0 on, the
\* children in the order of their Add.
C18_ContentLengthIsSumOfChildren ==
  /\ \A i \in DOMAIN asn.heap :
       /\ asn.heap[i].kind = "sequence" =>
            asn.heap[i].m_dwEncodedDataLength = SumOfLengths(asn.heap, asn.heap[i].m_rgData)
       /\ asn.heap[i].kind = "tagged" =>
            asn.heap[i].m_dwEncodedDataLength = GetEncodedLength(asn.heap[asn.heap[i].m_pData])
  /\ asn.root # 0 =>
       /\ Extent(asn.buf) = asn.cb
       /\ \A k \in DOMAIN asn.buf :
            asn.buf[k].at = IF k = 1 THEN 0 ELSE asn.buf[k - 1].at + asn.buf[k - 1].cb

\* v fits in k bytes of two's complement; every int fits in 4
FitsIn(v, k) == k = 4 \/ (0 - (2 ^ (8 * k - 1)) <= v /\ v < 2 ^ (8 * k - 1))

\* the least number of bytes v fits in
MinimalLength(v) == CHOOSE k \in 1 .. 4 : FitsIn(v, k) /\ \A j \in 1 .. (k - 1) : ~FitsIn(v, j)

\* the value that content bytes stand for: big-endian two's complement
RECURSIVE SignedValueFrom(_, _)
SignedValueFrom(acc, bytes) ==
  IF bytes = <<>> THEN acc ELSE SignedValueFrom(acc * 256 + Head(bytes), Tail(bytes))

SignedValue(bytes) ==
  SignedValueFrom(IF Head(bytes) >= 128 THEN Head(bytes) - 256 ELSE Head(bytes), Tail(bytes))

\* C19: the INTEGER built from a 32-bit signed value v declares the least
\* number of content bytes that v fits in as two's complement, so that the
\* sign bit of the top byte is v's sign; its content is that many low bytes
\* of v, high byte first, standing for v; and GetEncoded stores the header
\* 02, length and then exactly those bytes.
C19_MinimalTwosComplement ==
  last.op = "CAsn1Integer" =>
    LET n == asn.heap[1]
        v == last.req.iData
        cb == MinimalLength(v)
    IN /\ n.m_dwEncodedDataLength = cb
       /\ n.m_pbData = [k \in 1 .. cb |-> Byte(v, cb - k)]
       /\ (Head(n.m_pbData) >= 128) <=> (v < 0)
       /\ SignedValue(n.m_pbData) = v
       /\ asn.root = 1 =>
            asn.buf = <<Stored(0, 2, <<ASN1_INTEGER, cb>>), Stored(2, cb, n.m_pbData)>>

\* C19 witness: the INTEGER built from 128 has been encoded as 02 02 00 80.
C19_Witness ==
  /\ last.op = "CAsn1Integer" /\ last.req.iData = 128
  /\ asn.root = 1 /\ asn.cb = 4
  /\ asn.buf = <<Stored(0, 2, <<2, 2>>), Stored(2, 2, <<0, 128>>)>>

\* the two decimal digits of n as characters
TwoDigits(n) == <<48 + (n \div 10), 48 + (n % 10)>>

\* the number two digit characters stand for
DigitsValue(c, k) == (c[k] - 48) * 10 + (c[k + 1] - 48)

\* the date and time that the 13 characters YYMMDDhhmmssZ stand for, YY below
\* 50 in the years 2000 and YY from 50 on in the years 1900
ParsedTime(c) ==
  <<(IF DigitsValue(c, 1) < 50 THEN 2000 ELSE 1900) + DigitsValue(c, 1),
    DigitsValue(c, 3), DigitsValue(c, 5), DigitsValue(c, 7), DigitsValue(c, 9),
    DigitsValue(c, 11)>>

\* C20: the UTCTime built from (Y, M, D, h, m, s), Y in 1950..2049, M in
\* 1..12, D in 1..31, h in 0..23, m and s in 0..59, holds and emits the 13
\* characters YYMMDDhhmmssZ, each field the two decimal digits of the input,
\* and parsing them back gives (Y, M, D, h, m, s).
C20_UTCTimeRoundTrip ==
  last.op = "CAsn1UTCTime" =>
    LET c == asn.heap[1].m_pbData
        t == last.req
    IN /\ c = TwoDigits(t.wYear % 100) \o TwoDigits(t.wMonth) \o TwoDigits(t.wDay)
              \o TwoDigits(t.wHour) \o TwoDigits(t.wMinute) \o TwoDigits(t.wSecond)
              \o <<90>>
       /\ ParsedTime(c) = <<t.wYear, t.wMonth, t.wDay, t.wHour, t.wMinute, t.wSecond>>
       /\ asn.root = 1 =>
            asn.buf = <<Stored(0, 2, <<ASN1_UTCTIME, 13>>), Stored(2, 13, c)>>

\* the card of the call holds an active key and a whole certificate file and
\* answers every APDU of the certificate read with 9000
CertOnCard ==
  /\ last.req.ans = ActiveKey2 /\ last.req.fault = NoFault
  /\ efSize = CertFileSize

\* C23: on a card that holds a certificate, GetCertificateML(NULL, &dim) with
\* *dim = 0 returns C_WRONG_LEN, sets *dim to the length stored in the first
\* two bytes of the file and sends no READ BINARY but the one for those two
\* bytes; GetCertificateML with a buffer of that capacity returns C_OK with
\* *dim the stored length and the buffer holding the bytes that follow.
C23_SizeProbe ==
  (last.op = "GetCertificateML" /\ CertOnCard) =>
    /\ (last.req.args.certNull /\ last.req.args.dim = 0) =>
         /\ last.rv = C_WRONG_LEN
         /\ last.out.dim = CertFileSize - 2
         /\ last.out.cert = <<>>
         /\ \A m \in DOMAIN last.sent :
              last.sent[m][2] = 176 => SubSeq(last.sent[m], 3, 5) = <<0, 0, 2>>
    /\ (~last.req.args.certNull /\ last.req.args.dim = CertFileSize - 2) =>
         /\ last.rv = C_OK
         /\ last.out.dim = CertFileSize - 2
         /\ last.out.cert = [i \in 1 .. CertFileSize - 2 |-> FileByte(i + 1)]

\* C23 witness: PKCS7SignML has sized its buffer with the probe and the
\* second GetCertificateML has filled it.
C23_Witness ==
  /\ p7.pc = "SignDataML" /\ p7.ritorno = C_OK /\ p7.lenCer = CertFileSize - 2
  /\ last.op = "GetCertificateML" /\ CertOnCard
  /\ ~last.req.args.certNull /\ last.req.args.dim = CertFileSize - 2
  /\ last.rv = C_OK /\ Len(last.out.cert) = CertFileSize - 2

\* C24: when PKCS7SignML, called with bInitialize true, has opened its input
\* and returned: a slot that its Initialize connected (C_OK) or could not
\* connect is not connected, whatever the return path, and a slot that was
\* connected at entry (C_ALREADY_INITIALIZED) is still connected.
C24_SlotAsAtEntry ==
  (p7.pc = "returned" /\ p7.fn = "PKCS7SignML" /\ p7.bInitialize /\ "in" \in files) =>
    IF p7.iInitRes = C_ALREADY_INITIALIZED THEN hCards[p7.slot] # 0
    ELSE hCards[p7.slot] = 0

\* the call that has just returned transmitted MSE SET or PSO SIGN
SentSigning(l) ==
  /\ l.op = "SignML"
  /\ \E m \in DOMAIN l.sent :
       ApduHeader(l.sent[m]) \in {<<0, 34, 241, 184>>, <<0, 42, 128, 134>>}

\* C30: PKCS7SignML passes from VerifyPINML to the key lookup only when
\* VerifyPINML returned C_OK, from there to the two certificate reads, and to
\* SignDataML only when the second GetCertificateML returned C_OK; MSE SET
\* and PSO SIGN are transmitted in SignDataML only; and the output file comes
\* into being only in the write that follows a SignML that returned C_OK
\* with PSO SIGN, its last APDU, answered 9000.
C30_SignAfterPinAndCertificate ==
  [][/\ (p7'.pc = "GetKeyIDML" /\ p7.pc # "GetKeyIDML") =>
          (p7.pc = "VerifyPINML" /\ last'.op = "VerifyPINML" /\ last'.rv = C_OK)
     /\ (p7'.pc = "GetCertificateML(NULL)" /\ p7.pc # "GetCertificateML(NULL)") =>
          p7.pc = "GetKeyIDML"
     /\ (p7'.pc = "GetCertificateML(certificato)" /\ p7.pc # "GetCertificateML(certificato)") =>
          p7.pc = "GetCertificateML(NULL)"
     /\ (p7'.pc = "SignDataML" /\ p7.pc # "SignDataML") =>
          /\ p7.pc = "GetCertificateML(certificato)"
          /\ last'.op = "GetCertificateML" /\ last'.rv = C_OK
     /\ (last' # last /\ SentSigning(last')) =>
          (p7.pc = "SignDataML" /\ p7.calling)
     /\ (p7.out \in files' /\ p7.out \notin files) =>
          /\ p7.pc = "MemWriteFile"
          /\ last.op = "SignML" /\ last.rv = C_OK /\ last.SW = SW_OK
          /\ ApduHeader(last.sent[Len(last.sent)]) = <<0, 42, 128, 134>>]_vars

\* C30 witness: PKCS7SignML has written its output after a SignML that
\* returned C_OK.
C30_Witness ==
  /\ p7.pc = "FinalizeML" /\ p7.risultato = C_OK /\ p7.out \in files
  /\ SentSigning(last) /\ last.rv = C_OK

\* C25: SelectML, ReadBinaryML, VerifyPINML, ReadCounterML,
\* ComputeSigilloML or SignML called on a slot that is not connected returns
\* C_NOT_INITIALIZED, has passed no APDU to SCardTransmit and leaves the
\* slot's transaction depth as it was, also when the other slot is connected.
C25_NotConnectedIsNotInitialized ==
  (last.op \in {"SelectML", "ReadBinaryML", "VerifyPINML", "ReadCounterML",
                "ComputeSigilloML", "SignML"}
     /\ hCards[last.s] = 0) =>
    /\ last.rv = C_NOT_INITIALIZED
    /\ last.sent = <<>>
    /\ hCardsTransactions[last.s] = last.pre

\* C26: whenever at least one slot is connected, defSlot designates a
\* connected slot (after any sequence of Initialize and FinalizeML calls).
C26_DefaultSlotConnected ==
  (\E nSlot \in Slots : hCards[nSlot] # 0) =>
    /\ defSlot \in Slots
    /\ hCards[defSlot] # 0

\* The serial number the card holds: bytes 18..25 of its EF GDO.
SerialOnCard == [i \in 1 .. 8 |-> FileByte(17 + i)]

\* C28: GetSNML returns 0 only when the 26 bytes of EF GDO were read and
\* bytes 18..25 copied to serial, and every COMPUTE SEAL challenge that
\* ComputeSigilloExML sends carries the serial number read from the card.
C28_SerialReadOrError ==
  /\ (last.op = "GetSNML" /\ last.rv = C_OK) =>
       /\ efSize >= GdoSize
       /\ last.out = SerialOnCard
  /\ last.op = "ComputeSigilloExML" =>
       \A m \in DOMAIN last.sent :
         ApduHeader(last.sent[m]) = <<0, 50, 131, 18>> =>
           /\ efSize >= GdoSize
           /\ SubSeq(last.sent[m], 8, 15) = SerialOnCard

\* A card operation has returned.
CardOps ==
  {"SelectML", "ReadBinaryML", "GetSNML", "VerifyPINML", "ReadCounterML", "ReadBalanceML",
   "ComputeSigilloML", "ComputeSigilloExML", "GetKeyIDML", "GetCertificateML", "SignML"}

RECURSIVE BigEndian(_, _, _)
BigEndian(bytes, p, n) ==
  IF n = 0 THEN 0 ELSE Shl8(BigEndian(bytes, p, n - 1), bytes[p + n])

\* The TLV that starts at offset p of the slice is malformed: tag number 31,
\* no length byte, indefinite length, more than 4 length bytes, or a header
\* or a length that runs past the end of the slice.
Malformed(bytes, p) ==
  \/ bytes[p + 1] % 32 = 31
  \/ p + 2 > Len(bytes)
  \/ bytes[p + 2] = 128
  \/ /\ bytes[p + 2] > 128
     /\ \/ bytes[p + 2] - 128 > 4
        \/ p + 2 + (bytes[p + 2] - 128) > Len(bytes)
        \/ BigEndian(bytes, p + 2, bytes[p + 2] - 128) = Huge
        \/ p + 2 + (bytes[p + 2] - 128) + BigEndian(bytes, p + 2, bytes[p + 2] - 128)
             > Len(bytes)
  \/ /\ bytes[p + 2] < 128
     /\ p + 2 + bytes[p + 2] > Len(bytes)

\* C21: the items der_parse yields are the TLVs of the slice in order from
\* its first byte, none of them is a malformed TLV (so nothing is yielded
\* for a malformed TLV or for a byte after it), and each lies wholly inside
\* the slice.
C21_StopsAtMalformed ==
  last.op = "der_parse" =>
    \A k \in DOMAIN last.out :
      /\ last.out[k].fvalue = IF k = 1 THEN 0
                              ELSE last.out[k - 1].fvalue + last.out[k - 1].flen
      /\ ~Malformed(last.req, last.out[k].fvalue)
      /\ last.out[k].fvalue <= last.out[k].value
      /\ last.out[k].value + last.out[k].len = last.out[k].fvalue + last.out[k].flen
      /\ last.out[k].value + last.out[k].len <= Len(last.req)

\* The Base64 characters of B without line breaks: 4 * ceil(|B| / 3) of them.
Ceil3(n) == (n + 2) \div 3

\* C29: after LoadBufferToEncode and ProcessToBuffer, the destination length
\* reported equals the number of bytes Encode wrote, which is 4 * ceil(n / 3)
\* characters plus one CR LF for each complete line of L characters.
C29_ReportedIsWritten ==
  (last.op = "ProcessToBuffer" /\ last.out.cmdCurrent = CMD_ENCODE) =>
    /\ last.out.cbDestination = last.Len
    /\ last.Len = 4 * Ceil3(Len(last.req.B))
                    + 2 * ((4 * Ceil3(Len(last.req.B))) \div last.out.uLineLength)

\* C22: a use of the object never ends in a division by zero or a failed
\* allocation, and after the ProcessToBuffer of the decoding the decoded
\* length is |B| and the decoded bytes are B.
C22_RoundTrip ==
  /\ last.op \notin {"division by zero", "bad_alloc"}
  /\ (last.op = "ProcessToBuffer" /\ last.out.cmdCurrent = CMD_DECODE) =>
       /\ last.out.cbDestination = Len(last.req.B)
       /\ last.Len = Len(last.req.B)
       /\ SubSeq(last.out.pbDestination, 1, last.Len) = last.req.B
====
